---- MODULE Spec2Model ----
(***************************************************************************)
(* Model of the quiz application (src/src/contract.rs, state.rs, lib.rs).  *)
(*                                                                         *)
(* One chain, the application creator's, is the main chain; every other    *)
(* chain forwards its operations to it as messages.  Each chain has its    *)
(* own QuizState.                                                          *)
(*                                                                         *)
(* Time.  The contract reads start and end times as decimal strings of     *)
(* milliseconds and stores them as microseconds.  Timestamps of the model  *)
(* are counted in units of 10^9 ms = 10^12 us, so that they fit 32-bit     *)
(* integers: the time string of k units is the decimal text of             *)
(* k * 10^9, and the system time of the model is a whole number of units.  *)
(*                                                                         *)
(* Quiz ids are u64.  An integer of the model stands for the u64 with the   *)
(* same low 64 bits in two's complement: 0, 1, 2, ... stand for            *)
(* themselves, -1 for 2^64 - 1, -2 for 2^64 - 2.  Ids are only compared    *)
(* for equality and incremented.                                           *)
(*                                                                         *)
(* Payload that the contract writes and never reads (title, description,   *)
(* time_limit, question text and options, the created_at of a User) is     *)
(* left out of the records.                                                *)
(***************************************************************************)
EXTENDS Integers, Sequences, FiniteSets, TLC

VARIABLES
    state,      \* chain id -> QuizState of that chain
    inflight,   \* source chain id -> messages sent to the main chain, oldest first
    now,        \* system time of the main chain, in units
    last        \* what the last step was and what it returned

vars == <<state, inflight, now, last>>

-----------------------------------------------------------------------------
(* Bounds of the model *)

MaxTime == 4
MaxQuizzes == 2
MaxInFlight == 1
MaxAttempts == 2

-----------------------------------------------------------------------------
(* Chains and identities *)

MainChain == "main"
PeerChains == {"peer"}
Chains == {MainChain} \cup PeerChains

NoSigner == "none"
Wallets == {"w1", "w2"}
Signers == Wallets \cup {NoSigner}
Nicknames == {"n1", "n2"}

-----------------------------------------------------------------------------
(* MapView: a function whose domain is the set of keys present *)

EmptyMap == [k \in {} |-> k]

MapGet(m, k) == m[k]

MapHas(m, k) == k \in DOMAIN m

MapInsert(m, k, v) == [x \in DOMAIN m \cup {k} |-> IF x = k THEN v ELSE m[x]]

MapRemove(m, k) == [x \in DOMAIN m \ {k} |-> m[x]]

MapGetOrDefault(m, k) == IF k \in DOMAIN m THEN m[k] ELSE <<>>

-----------------------------------------------------------------------------
(* Vec helpers *)

Contains(s, x) == \E i \in 1..Len(s) : s[i] = x

-----------------------------------------------------------------------------
(* u32 arithmetic *)

\* An integer of the model stands for the u32 with the same low 32 bits in
\* two's complement: 0 .. 2^31 - 1 stand for themselves, -1 for 2^32 - 1,
\* -2^31 for 2^31.
I32Max == 2147483647
U32Max == 0 - 1

\* a < b as u32
lt_u32(a, b) == IF (a < 0) = (b < 0) THEN a < b ELSE a >= 0

\* u32::wrapping_add
wrapping_add(a, b) ==
    IF a >= 0 /\ b >= 0
    THEN IF a <= I32Max - b THEN a + b
         ELSE ((a - I32Max) - 1) + ((b - I32Max) - 1)
    ELSE IF a < 0 /\ b < 0
    THEN IF a >= ((0 - I32Max) - 1) - b THEN a + b
         ELSE ((a + I32Max) + 1) + ((b + I32Max) + 1)
    ELSE a + b

\* u32::overflowing_add: the wrapped sum, and whether the sum did not fit
overflowing_add(a, b) ==
    [ value    |-> wrapping_add(a, b),
      overflow |-> IF a >= 0 /\ b >= 0 THEN FALSE
                   ELSE IF a < 0 /\ b < 0 THEN TRUE
                   ELSE a + b >= 0 ]

\* u32::overflowing_mul: the wrapped product, and whether the product did not
\* fit.  With a = a1 * 2^16 + a0 and b = b1 * 2^16 + b0,
\* a * b = a1 * b1 * 2^32 + (a1 * b0 + a0 * b1) * 2^16 + a0 * b0.
overflowing_mul(a, b) ==
    LET \* the low and the high 16 bits of a u32
        lo_u16(w) == w % 65536
        hi_u16(w) == IF w >= 0 THEN w \div 65536 ELSE (w \div 65536) + 65536
        \* the u32 with these high and low 16 bits
        from_u16(hi, lo) ==
            IF hi >= 32768 THEN (hi - 65536) * 65536 + lo ELSE hi * 65536 + lo
        \* u * v for u, v < 2^16, as hi * 2^16 + lo with lo < 2^16
        mul_u16(u, v) ==
            LET x == u * (v \div 256)
                y == u * (v % 256)
                t == (x % 256) * 256 + y
            IN [hi |-> (x \div 256) + (t \div 65536), lo |-> t % 65536]
        c == mul_u16(lo_u16(a), lo_u16(b))
        m == mul_u16(hi_u16(a), lo_u16(b))
        n == mul_u16(lo_u16(a), hi_u16(b))
        s == m.lo + n.lo + c.hi
    IN [ value    |-> from_u16(s % 65536, c.lo),
         overflow |-> \/ s \div 65536 > 0
                      \/ m.hi > 0
                      \/ n.hi > 0
                      \/ (hi_u16(a) > 0 /\ hi_u16(b) > 0) ]

\* u32::wrapping_sub
wrapping_sub(a, b) ==
    IF b = (0 - I32Max) - 1 THEN wrapping_add(a, b)
    ELSE wrapping_add(a, 0 - b)

\* x put before the first entry of the ascending s that is above it as u32
RECURSIVE InsertAscending(_, _)
InsertAscending(x, s) ==
    IF s = <<>> THEN <<x>>
    ELSE IF lt_u32(x, Head(s)) THEN <<x>> \o s
    ELSE <<Head(s)>> \o InsertAscending(x, Tail(s))

\* Vec<u32>::sort
RECURSIVE sort(_)
sort(s) == IF s = <<>> THEN <<>> ELSE InsertAscending(Head(s), sort(Tail(s)))

-----------------------------------------------------------------------------
(* QuizState *)

EmptyState(first_id) ==
    [ quiz_sets            |-> EmptyMap,
      user_attempts        |-> EmptyMap,
      quiz_events          |-> <<>>,
      app_events           |-> <<>>,
      next_quiz_id         |-> first_id,
      user_participations  |-> EmptyMap,
      leaderboard          |-> EmptyMap,
      users                |-> EmptyMap,
      nickname_to_wallet   |-> EmptyMap,
      user_created_quizzes |-> EmptyMap,
      quiz_participants    |-> EmptyMap ]

\* instantiate runs on the creator chain only; a RegisterView<u64> starts at 0
\* an instantiation that leaves next_quiz_id at its default
instantiate_keep_zero(s) == s

instantiate(s) ==
    IF s.next_quiz_id = 0 THEN [s EXCEPT !.next_quiz_id = 1] ELSE s

\* What a call returns and the state it leaves.  overflow tells that the call
\* computed a u32 sum that does not fit: res and st are then those of a build
\* without overflow checks, where the sum wraps, and a build with overflow
\* checks panics instead.
Return(res, st) == [res |-> res, st |-> st, overflow |-> FALSE]

-----------------------------------------------------------------------------
(* set_nickname *)

\* set_nickname that leaves the mapping of the old nickname in place
set_nickname_keep_old(s, signer, t, params) ==
    IF signer = NoSigner THEN Return("InsufficientPermissions", s)
    ELSE IF MapHas(s.nickname_to_wallet, params.nickname)
    THEN Return("NicknameAlreadyTaken", s)
    ELSE
      LET user == [wallet_address |-> signer, nickname |-> params.nickname]
      IN Return("Ok", [s EXCEPT
                         !.users = MapInsert(s.users, signer, user),
                         !.nickname_to_wallet =
                             MapInsert(s.nickname_to_wallet, params.nickname, signer)])

\* set_nickname that hands a nickname in use to the caller
set_nickname_last_wins(s, signer, t, params) ==
    IF signer = NoSigner THEN Return("InsufficientPermissions", s)
    ELSE
      LET n2w1 == IF MapHas(s.users, signer)
                  THEN MapRemove(s.nickname_to_wallet, MapGet(s.users, signer).nickname)
                  ELSE s.nickname_to_wallet
          user == [wallet_address |-> signer, nickname |-> params.nickname]
      IN Return("Ok", [s EXCEPT !.users = MapInsert(s.users, signer, user),
                                !.nickname_to_wallet =
                                    MapInsert(n2w1, params.nickname, signer)])

set_nickname(s, signer, t, params) ==
    IF signer = NoSigner THEN Return("InsufficientPermissions", s)
    ELSE IF MapHas(s.nickname_to_wallet, params.nickname)
    THEN Return("NicknameAlreadyTaken", s)
    ELSE
      LET n2w1 == IF MapHas(s.users, signer)
                  THEN MapRemove(s.nickname_to_wallet, MapGet(s.users, signer).nickname)
                  ELSE s.nickname_to_wallet
          user == [wallet_address |-> signer, nickname |-> params.nickname]
          users1 == MapInsert(s.users, signer, user)
          n2w2 == MapInsert(n2w1, params.nickname, signer)
      IN Return("Ok", [s EXCEPT !.users = users1, !.nickname_to_wallet = n2w2])

-----------------------------------------------------------------------------
(* Time strings and timestamps *)

\* The decimal text of k * 10^9 milliseconds, or a text that is no number
TimeString(k) == [numeric |-> TRUE, units |-> k]
NotANumber == [numeric |-> FALSE, units |-> 0]

\* str.parse::<u64>(): the milliseconds, in units, or a parse failure
ParseOk(str) == str.numeric

parse_u64(str) == str.units

RECURSIVE DecimalLen(_)
DecimalLen(n) == IF n < 10 THEN 1 ELSE 1 + DecimalLen(n \div 10)

\* millis.to_string().len() of k * 10^9: nine zeros follow the digits of k > 0
to_string_len(k) == IF k = 0 THEN 1 ELSE DecimalLen(k) + 9

\* millis.checked_mul(1000) fits u64 iff k * 10^12 <= 2^64 - 1
checked_mul_1000_ok(k) == k <= 18446744

\* a window of any length passes
within_100_years_unchecked(start_time, end_time) == TRUE

\* end.delta_since(start) <= TimeDelta::from_secs(3600 * 24 * 365 * 100),
\* with one unit = 10^6 s and both sides divided by 100
within_100_years(start_time, end_time) ==
    (end_time - start_time) * 10000 <= 3600 * 24 * 365

-----------------------------------------------------------------------------
(* create_quiz *)

\* format!("q{}-{}", quiz_id, index)
question_id(quiz_id, index) == <<quiz_id, index>>

make_questions(quiz_id, qparams) ==
    [i \in 1..Len(qparams) |->
        [ id              |-> question_id(quiz_id, i - 1),
          correct_options |-> qparams[i].correct_options,
          points          |-> qparams[i].points,
          question_type   |-> IF Len(qparams[i].correct_options) > 1
                              THEN "checkbox" ELSE "radio" ]]

parse_mode(str) ==
    CASE str = "public" -> "Public"
      [] str = "registration" -> "Registration"
      [] OTHER -> "Invalid"

parse_start_mode(str) ==
    CASE str = "auto" -> "Auto"
      [] str = "manual" -> "Manual"
      [] OTHER -> "Invalid"

\* u64::MAX
U64Max == 0 - 1

\* quiz_id.checked_add(1) is Some
checked_add_one_ok(quiz_id) == quiz_id # U64Max

create_quiz(s, signer, t, params) ==
    IF signer = NoSigner THEN Return("InsufficientPermissions", s)
    ELSE IF ~MapHas(s.users, signer) THEN Return("UserNotFound", s)
    ELSE IF ~ParseOk(params.start_time) THEN Return("InvalidParameters", s)
    ELSE IF ~(to_string_len(parse_u64(params.start_time)) >= 10
              /\ to_string_len(parse_u64(params.start_time)) <= 14)
    THEN Return("InvalidParameters", s)
    ELSE IF ~checked_mul_1000_ok(parse_u64(params.start_time))
    THEN Return("InvalidParameters", s)
    ELSE IF ~ParseOk(params.end_time) THEN Return("InvalidParameters", s)
    ELSE IF ~(to_string_len(parse_u64(params.end_time)) >= 10
              /\ to_string_len(parse_u64(params.end_time)) <= 14)
    THEN Return("InvalidParameters", s)
    ELSE IF ~checked_mul_1000_ok(parse_u64(params.end_time))
    THEN Return("InvalidParameters", s)
    ELSE
      LET user == MapGet(s.users, signer)
          start_time == parse_u64(params.start_time)
          end_time == parse_u64(params.end_time)
          mode == parse_mode(params.mode)
          start_mode == parse_start_mode(params.start_mode)
          quiz_id == s.next_quiz_id
          quiz_set ==
              [ id               |-> quiz_id,
                creator          |-> signer,
                creator_nickname |-> user.nickname,
                questions        |-> make_questions(quiz_id, params.questions),
                start_time       |-> start_time,
                end_time         |-> end_time,
                created_at       |-> t,
                mode             |-> mode,
                start_mode       |-> start_mode,
                is_started       |-> FALSE,
                registered_users |-> <<>>,
                participant_count |-> 0 ]
          created_quizzes ==
              Append(MapGetOrDefault(s.user_created_quizzes, signer), quiz_id)
      IN
        IF ~(start_time > t) THEN Return("InvalidParameters", s)
        ELSE IF ~(end_time > start_time) THEN Return("InvalidParameters", s)
        ELSE IF ~within_100_years(start_time, end_time)
        THEN Return("InvalidParameters", s)
        ELSE IF mode = "Invalid" THEN Return("InvalidQuizMode", s)
        ELSE IF start_mode = "Invalid" THEN Return("InvalidStartMode", s)
        ELSE
          \* both inserts come before the checked_add
          LET s1 == [s EXCEPT
                       !.quiz_sets = MapInsert(s.quiz_sets, quiz_id, quiz_set),
                       !.user_created_quizzes =
                           MapInsert(s.user_created_quizzes, signer, created_quizzes)]
          IN IF ~checked_add_one_ok(quiz_id) THEN Return("InternalError", s1)
             ELSE Return("Ok", [s1 EXCEPT !.next_quiz_id = quiz_id + 1])

-----------------------------------------------------------------------------
(* update_leaderboard *)

\* the first index whose element satisfies the test, 0 when none does
RECURSIVE position_user(_, _, _)
position_user(entries, user, i) ==
    IF i > Len(entries) THEN 0
    ELSE IF entries[i].user = user THEN i
    ELSE position_user(entries, user, i + 1)

\* e goes after every entry whose score is >= its own
RECURSIVE InsertByScore(_, _)
InsertByScore(e, s) ==
    IF s = <<>> THEN <<e>>
    ELSE IF ~lt_u32(Head(s).score, e.score)
    THEN <<Head(s)>> \o InsertByScore(e, Tail(s))
    ELSE <<e>> \o s

\* a leaderboard left in the order of insertion
sort_by_score_unsorted(entries) == entries

\* entries.sort_by(|a, b| b.score.cmp(&a.score)): stable, highest score first
RECURSIVE sort_by_score(_)
sort_by_score(entries) ==
    IF entries = <<>> THEN <<>>
    ELSE InsertByScore(entries[Len(entries)],
                       sort_by_score(SubSeq(entries, 1, Len(entries) - 1)))

\* a leaderboard that is never written
update_leaderboard_unsaved(s, quiz_id, user, score) == Return("Ok", s)

update_leaderboard(s, quiz_id, user, score) ==
    LET entries == MapGetOrDefault(s.leaderboard, quiz_id)
        existing_index == position_user(entries, user, 1)
        entries1 == IF existing_index # 0
                    THEN [entries EXCEPT ![existing_index].score = score]
                    ELSE Append(entries,
                                [user |-> user, score |-> score, time_taken |-> 0])
    IN Return("Ok", [s EXCEPT !.leaderboard =
                        MapInsert(s.leaderboard, quiz_id, sort_by_score(entries1))])

-----------------------------------------------------------------------------
(* submit_answers *)

\* HashMap built by inserting the questions in order: the last of an id wins
question_map(questions) ==
    [id \in {questions[i].id : i \in 1..Len(questions)} |->
        questions[CHOOSE i \in 1..Len(questions) :
                     /\ questions[i].id = id
                     /\ \A j \in 1..Len(questions) : questions[j].id = id => j <= i]]

RECURSIVE position_question(_, _, _)
position_question(questions, id, i) ==
    IF i > Len(questions) THEN 0
    ELSE IF questions[i].id = id THEN i
    ELSE position_question(questions, id, i + 1)

\* The scoring loop over params.answers from the k-th on; acc is
\* [ok, score, overflow, answers_by_index]; an unknown question id ends it
\* with an error.  score += question.points is a u32 addition: overflow tells
\* that one of the additions so far did not fit and wrapped.
RECURSIVE score_answers(_, _, _, _)
score_answers(questions, answers, k, acc) ==
    IF k > Len(answers) THEN acc
    ELSE
      LET answer_option == answers[k]
          qmap == question_map(questions)
      IN
        IF ~MapHas(qmap, answer_option.question_id)
        THEN [acc EXCEPT !.ok = FALSE]
        ELSE
          LET question == MapGet(qmap, answer_option.question_id)
              question_index ==
                  position_question(questions, answer_option.question_id, 1)
              gained == IF sort(answer_option.selected_answers)
                             = sort(question.correct_options)
                        THEN question.points ELSE 0
              sum == overflowing_add(acc.score, gained)
          IN score_answers(questions, answers, k + 1,
                 [ ok    |-> TRUE,
                   score |-> sum.value,
                   overflow |-> acc.overflow \/ sum.overflow,
                   answers_by_index |->
                       [acc.answers_by_index EXCEPT
                           ![question_index] = answer_option.selected_answers] ])

\* The writes of an accepted submission, lines 610-669.
\* quiz_set.participant_count += 1 is a u32 addition: the call overflows when
\* the score or the count did not fit.
store_attempt(s1, quiz_set, signer, t, params, scored) ==
    LET count == overflowing_add(quiz_set.participant_count, 1)
        attempt ==
            [ quiz_id      |-> params.quiz_id,
              user         |-> signer,
              nickname     |-> params.nickname,
              answers      |-> scored.answers_by_index,
              score        |-> scored.score,
              time_taken   |-> params.time_taken,
              completed_at |-> t ]
        participants == MapGetOrDefault(s1.quiz_participants, params.quiz_id)
        participations == MapGetOrDefault(s1.user_participations, signer)
        s2 == [s1 EXCEPT
                 !.user_attempts =
                     MapInsert(s1.user_attempts, <<params.quiz_id, signer>>, attempt),
                 !.quiz_events = Append(s1.quiz_events, attempt),
                 !.quiz_participants =
                     IF ~Contains(participants, signer)
                     THEN MapInsert(s1.quiz_participants, params.quiz_id,
                                    Append(participants, signer))
                     ELSE s1.quiz_participants,
                 !.quiz_sets =
                     MapInsert(s1.quiz_sets, params.quiz_id,
                               [quiz_set EXCEPT !.participant_count = count.value]),
                 !.user_participations =
                     MapInsert(s1.user_participations, signer,
                               Append(participations, params.quiz_id))]
        r == update_leaderboard(s2, params.quiz_id, signer, scored.score)
    IN [r EXCEPT !.overflow = scored.overflow \/ count.overflow]

\* a lookup that never finds an attempt
never_attempted(s, quiz_id, signer) == FALSE

\* the lookup of the caller's attempt in user_attempts
already_attempted(s, quiz_id, signer) ==
    MapHas(s.user_attempts, <<quiz_id, signer>>)

\* a test of the registration that everyone passes
is_registered_anyone(quiz_set, signer) == TRUE

\* quiz_set.registered_users.contains(&wallet_address)
is_registered(quiz_set, signer) == Contains(quiz_set.registered_users, signer)

\* an auto-start that does not look at the start mode
should_auto_start_any_mode(stored, t) ==
    /\ ~stored.is_started
    /\ t >= stored.start_time

\* the quiz is not started, starts by itself and its start time has come
should_auto_start(stored, t) ==
    /\ ~stored.is_started
    /\ stored.start_mode = "Auto"
    /\ t >= stored.start_time

submit_answers(s, signer, t, params) ==
    IF signer = NoSigner THEN Return("InsufficientPermissions", s)
    ELSE IF ~MapHas(s.quiz_sets, params.quiz_id) THEN Return("QuizNotFound", s)
    ELSE
      LET stored == MapGet(s.quiz_sets, params.quiz_id)
          auto_start == should_auto_start(stored, t)
          quiz_set == IF auto_start THEN [stored EXCEPT !.is_started = TRUE]
                      ELSE stored
          \* the auto-start is written to quiz_sets before the later checks
          s1 == IF auto_start
                THEN [s EXCEPT !.quiz_sets =
                         MapInsert(s.quiz_sets, params.quiz_id, quiz_set)]
                ELSE s
          scored == score_answers(quiz_set.questions, params.answers, 1,
                        [ ok    |-> TRUE,
                          score |-> 0,
                          overflow |-> FALSE,
                          answers_by_index |->
                              [i \in 1..Len(quiz_set.questions) |-> <<>>] ])
      IN
        IF ~stored.is_started /\ ~auto_start THEN Return("QuizNotStarted", s)
        ELSE IF ~(t <= quiz_set.end_time) THEN Return("InvalidParameters", s1)
        ELSE IF already_attempted(s1, params.quiz_id, signer)
        THEN Return("UserAlreadyAttempted", s1)
        ELSE IF ~MapHas(s1.users, signer) THEN Return("UserNotFound", s1)
        ELSE IF MapGet(s1.users, signer).nickname # params.nickname
        THEN Return("InvalidParameters", s1)
        ELSE IF /\ quiz_set.mode = "Registration"
                /\ ~is_registered(quiz_set, signer)
        THEN Return("UserNotRegistered", s1)
        ELSE IF Len(params.answers) # Len(quiz_set.questions)
        THEN Return("InvalidParameters", s1)
        ELSE IF ~scored.ok
        THEN [Return("InvalidParameters", s1) EXCEPT !.overflow = scored.overflow]
        ELSE store_attempt(s1, quiz_set, signer, t, params, scored)

-----------------------------------------------------------------------------
(* start_quiz, register_for_quiz *)

\* a start_quiz that any wallet may call
start_quiz_by_anyone(s, signer, t, quiz_id) ==
    IF signer = NoSigner THEN Return("InsufficientPermissions", s)
    ELSE IF ~MapHas(s.quiz_sets, quiz_id) THEN Return("QuizNotFound", s)
    ELSE
      LET quiz_set == MapGet(s.quiz_sets, quiz_id)
      IN
        IF quiz_set.start_mode # "Manual" THEN Return("InvalidParameters", s)
        ELSE IF quiz_set.is_started THEN Return("InvalidParameters", s)
        ELSE IF ~(t >= quiz_set.start_time) THEN Return("InvalidParameters", s)
        ELSE IF ~(t <= quiz_set.end_time) THEN Return("InvalidParameters", s)
        ELSE Return("Ok", [s EXCEPT !.quiz_sets =
                              MapInsert(s.quiz_sets, quiz_id,
                                        [quiz_set EXCEPT !.is_started = TRUE])])

start_quiz(s, signer, t, quiz_id) ==
    IF signer = NoSigner THEN Return("InsufficientPermissions", s)
    ELSE IF ~MapHas(s.quiz_sets, quiz_id) THEN Return("QuizNotFound", s)
    ELSE
      LET quiz_set == MapGet(s.quiz_sets, quiz_id)
      IN
        IF quiz_set.creator # signer THEN Return("InsufficientPermissions", s)
        ELSE IF quiz_set.start_mode # "Manual" THEN Return("InvalidParameters", s)
        ELSE IF quiz_set.is_started THEN Return("InvalidParameters", s)
        ELSE IF ~(t >= quiz_set.start_time) THEN Return("InvalidParameters", s)
        ELSE IF ~(t <= quiz_set.end_time) THEN Return("InvalidParameters", s)
        ELSE Return("Ok", [s EXCEPT !.quiz_sets =
                              MapInsert(s.quiz_sets, quiz_id,
                                        [quiz_set EXCEPT !.is_started = TRUE])])

\* a register_for_quiz that does not look for an earlier registration
register_for_quiz_again(s, signer, t, quiz_id) ==
    IF signer = NoSigner THEN Return("InsufficientPermissions", s)
    ELSE IF ~MapHas(s.quiz_sets, quiz_id) THEN Return("QuizNotFound", s)
    ELSE
      LET quiz_set == MapGet(s.quiz_sets, quiz_id)
      IN
        IF quiz_set.mode # "Registration" THEN Return("InvalidParameters", s)
        ELSE IF quiz_set.is_started THEN Return("InvalidParameters", s)
        ELSE IF ~(t < quiz_set.end_time) THEN Return("InvalidParameters", s)
        ELSE IF ~MapHas(s.users, signer) THEN Return("UserNotFound", s)
        ELSE Return("Ok", [s EXCEPT !.quiz_sets =
                              MapInsert(s.quiz_sets, quiz_id,
                                        [quiz_set EXCEPT !.registered_users =
                                            Append(@, signer)])])

register_for_quiz(s, signer, t, quiz_id) ==
    IF signer = NoSigner THEN Return("InsufficientPermissions", s)
    ELSE IF ~MapHas(s.quiz_sets, quiz_id) THEN Return("QuizNotFound", s)
    ELSE
      LET quiz_set == MapGet(s.quiz_sets, quiz_id)
      IN
        IF quiz_set.mode # "Registration" THEN Return("InvalidParameters", s)
        ELSE IF quiz_set.is_started THEN Return("InvalidParameters", s)
        ELSE IF ~(t < quiz_set.end_time) THEN Return("InvalidParameters", s)
        ELSE IF ~MapHas(s.users, signer) THEN Return("UserNotFound", s)
        ELSE IF Contains(quiz_set.registered_users, signer)
        THEN Return("UserAlreadyRegistered", s)
        ELSE Return("Ok", [s EXCEPT !.quiz_sets =
                              MapInsert(s.quiz_sets, quiz_id,
                                        [quiz_set EXCEPT !.registered_users =
                                            Append(@, signer)])])

-----------------------------------------------------------------------------
(* Operations, messages and their dispatch *)

SetNickname(nickname) ==
    [kind |-> "SetNickname", params |-> [nickname |-> nickname]]

CreateQuiz(params) == [kind |-> "CreateQuiz", params |-> params]

SubmitAnswers(params) == [kind |-> "SubmitAnswers", params |-> params]

StartQuiz(quiz_id) == [kind |-> "StartQuiz", quiz_id |-> quiz_id]

RegisterForQuiz(quiz_id) == [kind |-> "RegisterForQuiz", quiz_id |-> quiz_id]

OperationKinds ==
    {"SetNickname", "CreateQuiz", "SubmitAnswers", "StartQuiz", "RegisterForQuiz"}

\* application_creator_chain_id()
main_chain_id == MainChain

\* is_main_chain taking every chain for the main chain
is_main_chain_always(current_chain_id) == TRUE

is_main_chain(current_chain_id) == current_chain_id = main_chain_id

\* the main-chain branch of execute_operation
apply_operation(s, signer, t, operation) ==
    CASE operation.kind = "SetNickname" ->
            set_nickname(s, signer, t, operation.params)
      [] operation.kind = "CreateQuiz" ->
            create_quiz(s, signer, t, operation.params)
      [] operation.kind = "SubmitAnswers" ->
            submit_answers(s, signer, t, operation.params)
      [] operation.kind = "StartQuiz" ->
            start_quiz(s, signer, t, operation.quiz_id)
      [] operation.kind = "RegisterForQuiz" ->
            register_for_quiz(s, signer, t, operation.quiz_id)

\* forward_to_main_chain naming the main chain as the source
forward_to_main_chain_from_main(current_chain_id, operation) ==
    CASE operation.kind \in {"SetNickname", "CreateQuiz", "SubmitAnswers"} ->
            [ kind          |-> operation.kind,
              from_chain_id |-> main_chain_id,
              params        |-> operation.params ]
      [] operation.kind \in {"StartQuiz", "RegisterForQuiz"} ->
            [ kind          |-> operation.kind,
              from_chain_id |-> main_chain_id,
              quiz_id       |-> operation.quiz_id ]

\* the message forward_to_main_chain builds
forward_to_main_chain(current_chain_id, operation) ==
    CASE operation.kind \in {"SetNickname", "CreateQuiz", "SubmitAnswers"} ->
            [ kind          |-> operation.kind,
              from_chain_id |-> current_chain_id,
              params        |-> operation.params ]
      [] operation.kind \in {"StartQuiz", "RegisterForQuiz"} ->
            [ kind          |-> operation.kind,
              from_chain_id |-> current_chain_id,
              quiz_id       |-> operation.quiz_id ]

\* handle_cross_chain_*: the engine is called and its result dropped (let _ =)
handle_cross_chain_set_nickname(s, signer, t, from_chain_id, params) ==
    set_nickname(s, signer, t, params)

\* handle_cross_chain_create_quiz that logs the request and does not apply it
handle_cross_chain_create_quiz_unwired(s, signer, t, from_chain_id, params) ==
    Return("Ok", s)

\* handle_cross_chain_create_quiz that drops a request its signer made before
handle_cross_chain_create_quiz_once(s, signer, t, from_chain_id, params) ==
    IF \E id \in DOMAIN s.quiz_sets :
          /\ s.quiz_sets[id].creator = signer
          /\ ParseOk(params.start_time)
          /\ s.quiz_sets[id].start_time = parse_u64(params.start_time)
          /\ s.quiz_sets[id].mode = parse_mode(params.mode)
    THEN Return("Ok", s)
    ELSE create_quiz(s, signer, t, params)

handle_cross_chain_create_quiz(s, signer, t, from_chain_id, params) ==
    create_quiz(s, signer, t, params)

handle_cross_chain_submit_answers(s, signer, t, from_chain_id, params) ==
    submit_answers(s, signer, t, params)

handle_cross_chain_start_quiz(s, signer, t, from_chain_id, quiz_id) ==
    start_quiz(s, signer, t, quiz_id)

handle_cross_chain_register_for_quiz(s, signer, t, from_chain_id, quiz_id) ==
    register_for_quiz(s, signer, t, quiz_id)

\* what a handler leaves behind: the response, the state to store, the
\* messages handed to send_message
Outcome(res, st, sent) ==
    [res |-> res, st |-> st, sent |-> sent, overflow |-> FALSE]

SendTo(destination, message) == [destination |-> destination, message |-> message]

\* an execute_operation that applies the operation on whatever chain it runs
execute_operation_locally(current_chain_id, s, signer, t, operation) ==
    LET r == apply_operation(s, signer, t, operation)
    IN [Outcome(r.res, r.st, <<>>) EXCEPT !.overflow = r.overflow]

\* execute_operation on chain current_chain_id
execute_operation(current_chain_id, s, signer, t, operation) ==
    IF is_main_chain(current_chain_id)
    THEN LET r == apply_operation(s, signer, t, operation)
         IN [Outcome(r.res, r.st, <<>>) EXCEPT !.overflow = r.overflow]
    ELSE Outcome("Ok", s,
                 << SendTo(main_chain_id,
                           forward_to_main_chain(current_chain_id, operation)) >>)

\* the handler execute_message hands the message to
handle_message(s, signer, t, message) ==
    CASE message.kind = "SetNickname" ->
            handle_cross_chain_set_nickname(s, signer, t, message.from_chain_id,
                                            message.params)
      [] message.kind = "CreateQuiz" ->
            handle_cross_chain_create_quiz(s, signer, t, message.from_chain_id,
                                           message.params)
      [] message.kind = "SubmitAnswers" ->
            handle_cross_chain_submit_answers(s, signer, t, message.from_chain_id,
                                              message.params)
      [] message.kind = "StartQuiz" ->
            handle_cross_chain_start_quiz(s, signer, t, message.from_chain_id,
                                          message.quiz_id)
      [] message.kind = "RegisterForQuiz" ->
            handle_cross_chain_register_for_quiz(s, signer, t, message.from_chain_id,
                                                 message.quiz_id)

\* execute_message that sends a rejected message back to where it came from
execute_message_with_reply(s, signer, t, message) ==
    LET r == handle_message(s, signer, t, message)
    IN [Outcome(r.res, r.st,
                IF r.res = "Ok" THEN <<>>
                ELSE << SendTo(message.from_chain_id, message) >>)
          EXCEPT !.overflow = r.overflow]

\* execute_message returns nothing: res is the result the handler drops, kept
\* here for observation only
execute_message(s, signer, t, message) ==
    LET r == handle_message(s, signer, t, message)
    IN [Outcome(r.res, r.st, <<>>) EXCEPT !.overflow = r.overflow]

-----------------------------------------------------------------------------
(* Inputs *)

QuestionsA ==
    << [correct_options |-> <<2, 0>>, points |-> 5],
       [correct_options |-> <<1>>, points |-> 3] >>

CreateParams(start_time, end_time, mode, start_mode) ==
    [ questions  |-> QuestionsA,
      start_time |-> start_time,
      end_time   |-> end_time,
      mode       |-> mode,
      start_mode |-> start_mode ]

\* every accepted quiz of the model runs from time 2 to time 3
ValidCreateParams ==
    { CreateParams(TimeString(2), TimeString(3), m, sm) :
        m \in {"public", "registration"}, sm \in {"auto", "manual"} }

InvalidCreateParams ==
    { CreateParams(NotANumber, TimeString(3), "public", "auto"),
      CreateParams(TimeString(2), NotANumber, "public", "auto"),
      CreateParams(TimeString(0), TimeString(3), "public", "auto"),
      CreateParams(TimeString(2), TimeString(100000), "public", "auto"),
      CreateParams(TimeString(3), TimeString(3), "public", "auto"),
      CreateParams(TimeString(2), TimeString(3156), "public", "auto"),
      CreateParams(TimeString(2), TimeString(3), "private", "auto"),
      CreateParams(TimeString(2), TimeString(3), "public", "timer") }

Answer(quiz_id, index, selected_answers) ==
    [question_id |-> question_id(quiz_id, index), selected_answers |-> selected_answers]

\* every question answered correctly, the options in another order
AnswersRight(q) == << Answer(q, 0, <<0, 2>>), Answer(q, 1, <<1>>) >>
\* the answers in another order than the questions, the first question wrong
AnswersHalf(q) == << Answer(q, 1, <<1>>), Answer(q, 0, <<0>>) >>
\* two answers to the first question, none to the second
AnswersTwice(q) == << Answer(q, 0, <<2, 0>>), Answer(q, 0, <<2, 0>>) >>
\* fewer answers than questions
AnswersShort(q) == << Answer(q, 0, <<2, 0>>) >>
\* an answer to a question of another quiz
AnswersForeign(q) == << Answer(q, 0, <<2, 0>>), Answer(q + 1, 1, <<1>>) >>

AnswerLists(q) ==
    { AnswersRight(q), AnswersHalf(q), AnswersTwice(q), AnswersShort(q),
      AnswersForeign(q) }

SubmitParams(q, answers, nickname) ==
    [quiz_id |-> q, answers |-> answers, time_taken |-> 7, nickname |-> nickname]

Call(signer, operation) == [signer |-> signer, operation |-> operation]

-----------------------------------------------------------------------------
(* The state machine *)

Step(step, chain, op, returned, engine) ==
    [step |-> step, chain |-> chain, op |-> op, returned |-> returned,
     engine |-> engine]

Idle == Step("idle", "none", "none", "none", "none")

Links == {<<src, dst>> \in Chains \X Chains : src # dst}

InFlightCount ==
    Cardinality({<<l, i>> \in Links \X (1..MaxInFlight) : i <= Len(inflight[l])})

\* the messages of sent, in order, each appended to the queue of its link, with
\* the signer the runtime attaches to it
RECURSIVE Enqueue(_, _, _, _)
Enqueue(q, src, sent, authenticated_signer) ==
    IF sent = <<>> THEN q
    ELSE Enqueue([q EXCEPT ![<<src, Head(sent).destination>>] =
                     Append(@, [ message |-> Head(sent).message,
                                 authenticated_signer |-> authenticated_signer ])],
                 src, Tail(sent), authenticated_signer)

\* the counters and logs of the model stay within its bounds
WithinBounds(s) ==
    /\ s.next_quiz_id <= MaxQuizzes + 1
    /\ Len(s.quiz_events) <= MaxAttempts
    /\ \A w \in DOMAIN s.user_created_quizzes :
          Len(s.user_created_quizzes[w]) <= MaxQuizzes + 1

Init ==
    /\ state = [c \in Chains |->
                  IF c = MainChain THEN instantiate(EmptyState(0)) ELSE EmptyState(0)]
    /\ inflight = [l \in Links |-> <<>>]
    /\ now = 1
    /\ last = Idle

\* The builds of the contract: the sources fix no build profile, so a u32
\* value that does not fit panics in a build with overflow checks (the block
\* fails and nothing of it is kept) and wraps in a build without them.
OverflowChecks(overflow) == IF overflow THEN BOOLEAN ELSE {FALSE}

\* A block of chain c with one operation: execute_operation, then store.  The
\* runtime passes a message on with the signer of the operation or with none.
ExecuteOperation(c, signer, operation) ==
    /\ last = Idle
    /\ LET r == execute_operation(c, state[c], signer, now, operation)
       IN \E overflow_checks \in OverflowChecks(r.overflow) :
            IF overflow_checks
            THEN /\ UNCHANGED <<state, inflight>>
                 /\ last' = Step("operation", c, operation.kind, "panic", "panic")
            ELSE /\ WithinBounds(r.st)
                 /\ InFlightCount + Len(r.sent) <= MaxInFlight
                 /\ state' = [state EXCEPT ![c] = r.st]
                 /\ \E authenticated_signer \in
                        (IF r.sent = <<>> THEN {signer} ELSE {signer, NoSigner}) :
                     inflight' = Enqueue(inflight, c, r.sent, authenticated_signer)
                 /\ last' = Step(IF r.sent = <<>> THEN "operation" ELSE "forward",
                                 c, operation.kind, r.res,
                                 IF r.sent = <<>> THEN r.res ELSE "none")
    /\ UNCHANGED now

\* A block of chain dst with the oldest message of chain src: execute_message,
\* then store
ExecuteMessage(src, dst) ==
    /\ last = Idle
    /\ inflight[<<src, dst>>] # <<>>
    /\ LET envelope == Head(inflight[<<src, dst>>])
           r == execute_message(state[dst], envelope.authenticated_signer, now,
                                envelope.message)
       IN \E overflow_checks \in OverflowChecks(r.overflow) :
            IF overflow_checks
            THEN /\ UNCHANGED <<state, inflight>>
                 /\ last' = Step("message", dst, envelope.message.kind,
                                 "none", "panic")
            ELSE /\ WithinBounds(r.st)
                 /\ state' = [state EXCEPT ![dst] = r.st]
                 /\ inflight' = Enqueue([inflight EXCEPT ![<<src, dst>>] = Tail(@)],
                                        dst, r.sent, NoSigner)
                 /\ last' = Step("message", dst, envelope.message.kind,
                                 "none", r.res)
    /\ UNCHANGED now

\* the caller has its response and the chain is ready for the next block
Respond ==
    /\ last # Idle
    /\ last' = Idle
    /\ UNCHANGED <<state, inflight, now>>

\* the system time moves on
Tick ==
    /\ last = Idle
    /\ now < MaxTime
    /\ now' = now + 1
    /\ UNCHANGED <<state, inflight, last>>

\* The protocol: operations on the main chain and on a peer, and the delivery
\* of the forwarded messages
MainCalls ==
    { Call("w1", SetNickname("n1")),
      Call("w1", SetNickname("n2")),
      Call("w2", SetNickname("n1")) }
    \cup { Call("w1", CreateQuiz(CreateParams(TimeString(2), TimeString(3),
                                             "registration", "manual"))),
           Call("w1", CreateQuiz(CreateParams(TimeString(2), TimeString(3),
                                             "private", "manual"))),
           Call("w1", RegisterForQuiz(1)),
           Call("w1", StartQuiz(1)),
           Call("w2", StartQuiz(1)),
           Call("w1", SubmitAnswers(SubmitParams(1, AnswersHalf(1), "n1"))),
           Call("w1", SubmitAnswers(SubmitParams(1, AnswersShort(1), "n1"))) }

PeerCalls ==
    { Call("w1", SetNickname("n1")),
      Call("w1", CreateQuiz(CreateParams(TimeString(2), TimeString(3),
                                        "registration", "manual"))),
      Call("w1", RegisterForQuiz(1)),
      Call("w1", StartQuiz(1)),
      Call("w1", SubmitAnswers(SubmitParams(1, AnswersRight(1), "n1"))) }

Next ==
    \/ \E call \in MainCalls :
          ExecuteOperation(MainChain, call.signer, call.operation)
    \/ \E c \in PeerChains, call \in PeerCalls :
          ExecuteOperation(c, call.signer, call.operation)
    \/ \E l \in Links : ExecuteMessage(l[1], l[2])
    \/ Respond
    \/ Tick

Spec == Init /\ [][Next]_vars

\* The quizzes: every operation on the main chain, the submissions, starts and
\* registrations for quiz 1 and for a quiz that does not exist
NoSuchQuiz == MaxQuizzes + 1

QuizSubmitCalls ==
    UNION { {Call(w, SubmitAnswers(SubmitParams(q, a, n))) :
                w \in Wallets, a \in AnswerLists(q), n \in Nicknames} :
            q \in {1, NoSuchQuiz} }

QuizCalls ==
    { Call("w1", SetNickname("n1")), Call("w2", SetNickname("n2")) }
    \cup {Call("w1", CreateQuiz(p)) : p \in ValidCreateParams \cup InvalidCreateParams}
    \cup QuizSubmitCalls
    \cup {Call(w, StartQuiz(q)) : w \in Wallets, q \in {1, NoSuchQuiz}}
    \cup {Call(w, RegisterForQuiz(q)) : w \in Wallets, q \in {1, NoSuchQuiz}}
    \cup { Call(NoSigner, SubmitAnswers(SubmitParams(1, AnswersRight(1), "n1"))) }

NextQuiz ==
    \/ \E call \in QuizCalls :
          ExecuteOperation(MainChain, call.signer, call.operation)
    \/ Respond
    \/ Tick

SpecQuiz == Init /\ [][NextQuiz]_vars

\* The last ids: the main chain with next_quiz_id one below u64::MAX
InitLastIds ==
    /\ state = [c \in Chains |->
                  IF c = MainChain THEN EmptyState(U64Max - 1) ELSE EmptyState(0)]
    /\ inflight = [l \in Links |-> <<>>]
    /\ now = 1
    /\ last = Idle

LastIdsCalls ==
    { Call("w1", SetNickname("n1")), Call("w2", SetNickname("n2")) }
    \cup {Call(w, CreateQuiz(p)) : w \in Wallets, p \in ValidCreateParams}
    \cup { Call("w1", CreateQuiz(CreateParams(TimeString(3), TimeString(3),
                                             "public", "auto"))) }

NextLastIds ==
    \/ \E call \in LastIdsCalls :
          ExecuteOperation(MainChain, call.signer, call.operation)
    \/ Respond
    \/ Tick

SpecLastIds == InitLastIds /\ [][NextLastIds]_vars

\* The largest points: a quiz whose first question is worth u32::MAX, so that
\* the score of a user who answers it and another one right does not fit a u32
QuestionsMax ==
    << [correct_options |-> <<0>>, points |-> U32Max],
       [correct_options |-> <<1>>, points |-> 1],
       [correct_options |-> <<2>>, points |-> 2] >>

MaxAnswers(q, first, second, third) ==
    << Answer(q, 0, <<first>>), Answer(q, 1, <<second>>), Answer(q, 2, <<third>>) >>

\* the first two questions answered right, then an answer to a question the
\* quiz does not have
MaxAnswersForeign(q) ==
    << Answer(q, 0, <<0>>), Answer(q, 1, <<1>>), Answer(q + 1, 0, <<0>>) >>

MaxAnswerLists(q) ==
    { MaxAnswers(q, 0, 1, 2), MaxAnswers(q, 0, 1, 0), MaxAnswers(q, 0, 0, 0),
      MaxAnswers(q, 1, 1, 1), MaxAnswersForeign(q) }

ScoresCalls ==
    { Call("w1", SetNickname("n1")), Call("w2", SetNickname("n2")) }
    \cup { Call("w1", CreateQuiz([CreateParams(TimeString(2), TimeString(3),
                                               "public", "auto")
                                     EXCEPT !.questions = QuestionsMax])) }
    \cup { Call(w, SubmitAnswers(SubmitParams(1, a, n))) :
             w \in Wallets, n \in Nicknames, a \in MaxAnswerLists(1) }

NextScores ==
    \/ \E call \in ScoresCalls :
          ExecuteOperation(MainChain, call.signer, call.operation)
    \/ Respond
    \/ Tick

SpecScores == Init /\ [][NextScores]_vars


-----------------------------------------------------------------------------
(* Forwarding and the main chain *)

Main == state[MainChain]

\* the step taken is a block of chain c with an operation of this kind
Stepped(c, kind) ==
    /\ last = Idle
    /\ last'.step \in {"operation", "forward"}
    /\ last'.chain = c
    /\ last'.op = kind

\* the step taken is the delivery of a message of this kind to chain c
Delivered(c, kind) ==
    /\ last = Idle
    /\ last'.step = "message"
    /\ last'.chain = c
    /\ last'.op = kind

Payload(x) == IF x.kind \in {"StartQuiz", "RegisterForQuiz"} THEN x.quiz_id
              ELSE x.params

\* C1: an operation executed on a chain that is not the main chain returns Ok,
\* leaves the state of every chain as it was, and appends exactly one message
\* to the queue from that chain to the main chain, carrying the kind and the
\* parameters of the operation and the id of the chain.
C1_ForwardEnqueuesOneMessage ==
    [][\A c \in PeerChains, call \in PeerCalls :
         ( /\ Stepped(c, call.operation.kind)
           /\ ExecuteOperation(c, call.signer, call.operation) ) =>
            /\ last'.returned = "Ok"
            /\ state' = state
            /\ InFlightCount' = InFlightCount + 1
            /\ \A l \in Links \ {<<c, MainChain>>} : inflight'[l] = inflight[l]
            /\ Len(inflight'[<<c, MainChain>>]) = Len(inflight[<<c, MainChain>>]) + 1
            /\ LET m == inflight'[<<c, MainChain>>]
                            [Len(inflight'[<<c, MainChain>>])].message
               IN /\ m.kind = call.operation.kind
                  /\ m.from_chain_id = c
                  /\ Payload(m) = Payload(call.operation)
      ]_vars

\* C1 witness: a forward has just returned Ok with its message in flight
C1_Witness ==
    /\ last.step = "forward"
    /\ last.chain \in PeerChains
    /\ last.returned = "Ok"
    /\ Len(inflight[<<last.chain, MainChain>>]) = 1
    /\ Head(inflight[<<last.chain, MainChain>>]).message.kind = "SubmitAnswers"
    /\ ~MapHas(Main.quiz_sets, 1)

\* C2: a chain applies an operation itself exactly when it is the chain of the
\* application creator; there the caller gets the result of the mutation
\* engine, the state is the one the engine leaves, and no message is sent;
\* on any other chain the operation is not applied.
C2_MainChainAppliesDirectly ==
    [][\A c \in Chains, call \in MainCalls \cup PeerCalls :
         ( /\ Stepped(c, call.operation.kind)
           /\ ExecuteOperation(c, call.signer, call.operation) ) =>
            IF c = MainChain
            THEN LET r == apply_operation(state[c], call.signer, now, call.operation)
                 IN /\ last'.returned = r.res
                    /\ state' = [state EXCEPT ![c] = r.st]
                    /\ inflight' = inflight
            ELSE /\ state' = state
                 /\ inflight' # inflight
      ]_vars

\* C2 witness: the main chain has just returned an error code of the engine
C2_Witness ==
    /\ last.step = "operation"
    /\ last.chain = MainChain
    /\ last.returned = "NicknameAlreadyTaken"
    /\ InFlightCount = 0

\* C3: a forwarded message leaves the main chain in the state the same
\* operation, executed there directly by the same signer at the same time,
\* leaves it in.
C3_MessageAppliesLikeOperation ==
    [][\A l \in Links, call \in PeerCalls :
         ( /\ Delivered(l[2], call.operation.kind)
           /\ ExecuteMessage(l[1], l[2])
           /\ Head(inflight[l]).message = forward_to_main_chain(l[1], call.operation) )
         => state'[l[2]] =
                apply_operation(state[l[2]], Head(inflight[l]).authenticated_signer,
                                now, call.operation).st
      ]_vars

\* C3 witness: a forwarded submission has been applied on the main chain
C3_Witness ==
    /\ last.step = "message"
    /\ last.op = "SubmitAnswers"
    /\ last.engine = "Ok"
    /\ MapHas(Main.user_attempts, <<1, "w1">>)

\* C5: the delivery of a forwarded operation, rejected or accepted, changes
\* nothing at the forwarding chain: its state stays, no message is queued for
\* it or for any other chain, and nothing is returned to it.
C5_RejectionIsSilent ==
    [][\A l \in Links :
         ( /\ \E kind \in OperationKinds : Delivered(l[2], kind)
           /\ ExecuteMessage(l[1], l[2]) ) =>
            /\ state'[l[1]] = state[l[1]]
            /\ inflight' = [inflight EXCEPT ![l] = Tail(@)]
            /\ last'.returned = "none"
      ]_vars

\* C5 witness: the main chain has just rejected a forwarded operation
C5_Witness ==
    /\ last.step = "message"
    /\ last.engine \notin {"Ok", "none"}
    /\ InFlightCount = 0
    /\ \A c \in PeerChains : state[c] = EmptyState(0)

\* C10: on every chain, nickname n maps to wallet w exactly when the profile of
\* w holds nickname n.
C10_NicknameIndexInverse ==
    \A c \in Chains :
       /\ \A n \in DOMAIN state[c].nickname_to_wallet :
             /\ MapHas(state[c].users, state[c].nickname_to_wallet[n])
             /\ state[c].users[state[c].nickname_to_wallet[n]].nickname = n
       /\ \A w \in DOMAIN state[c].users :
             /\ MapHas(state[c].nickname_to_wallet, state[c].users[w].nickname)
             /\ state[c].nickname_to_wallet[state[c].users[w].nickname] = w
             /\ state[c].users[w].wallet_address = w

\* C10 witness: w1 has renamed itself and w2 has taken the old name of w1
C10_Witness ==
    /\ last.op = "SetNickname"
    /\ last.engine = "Ok"
    /\ MapHas(Main.users, "w1") /\ Main.users["w1"].nickname = "n2"
    /\ MapHas(Main.users, "w2") /\ Main.users["w2"].nickname = "n1"


-----------------------------------------------------------------------------
(* Errors and the ledger *)

\* C4 as claimed: an operation on the main chain that returns an error code
\* leaves the state of the main chain as it was.
C4_ErrorLeavesLedgerUnchanged ==
    [][( /\ last = Idle
         /\ last'.step = "operation"
         /\ last'.chain = MainChain
         /\ last'.returned # "Ok" )
       => state' = state]_vars

-----------------------------------------------------------------------------
(* Attempts *)

DirectSubmitCalls == {call \in MainCalls : call.operation.kind = "SubmitAnswers"}

\* the step taken is this submission executed on the main chain, and its
\* signer has an attempt for the quiz already
SecondSubmission(call) ==
    /\ Stepped(MainChain, "SubmitAnswers")
    /\ ExecuteOperation(MainChain, call.signer, call.operation)
    /\ MapHas(Main.user_attempts, <<call.operation.params.quiz_id, call.signer>>)

AttemptsKept ==
    \A key \in DOMAIN Main.user_attempts :
       /\ key \in DOMAIN Main'.user_attempts
       /\ Main'.user_attempts[key] = Main.user_attempts[key]

\* C6 as claimed: a second submission returns UserAlreadyAttempted whatever the
\* time, and no step changes an attempt once stored.
C6_SecondSubmissionAlwaysRefusedAsAttempted ==
    [][ /\ AttemptsKept
        /\ \A call \in DirectSubmitCalls :
              SecondSubmission(call) => last'.returned = "UserAlreadyAttempted"
      ]_vars

\* C6 amended: a second submission returns UserAlreadyAttempted up to the end
\* time of the quiz and InvalidParameters after it, and no step, operation or
\* message, changes an attempt once stored.
C6_SecondSubmissionRefused ==
    [][ /\ AttemptsKept
        /\ \A call \in DirectSubmitCalls :
              SecondSubmission(call) =>
                 last'.returned =
                    IF now <= Main.quiz_sets[call.operation.params.quiz_id].end_time
                    THEN "UserAlreadyAttempted"
                    ELSE "InvalidParameters"
      ]_vars

\* C6 witness: w1, whose attempt came by a forwarded message with other
\* answers, has just been refused a second submission
C6_Witness ==
    /\ last.step = "operation"
    /\ last.op = "SubmitAnswers"
    /\ last.returned = "UserAlreadyAttempted"
    /\ MapHas(Main.user_attempts, <<1, "w1">>)
    /\ Main.user_attempts[<<1, "w1">>].score = 8


-----------------------------------------------------------------------------
(* Scores *)

RECURSIVE SumOfMatched(_, _, _)
SumOfMatched(questions, answers, k) ==
    IF k > Len(questions) THEN 0
    ELSE (IF sort(answers[k]) = sort(questions[k].correct_options)
          THEN questions[k].points ELSE 0)
         + SumOfMatched(questions, answers, k + 1)

RECURSIVE SumOfPoints(_, _)
SumOfPoints(questions, k) ==
    IF k > Len(questions) THEN 0
    ELSE questions[k].points + SumOfPoints(questions, k + 1)

\* C7 as claimed: the score of every stored attempt is the sum of the points
\* of the questions whose stored slot, sorted, equals the sorted correct
\* options, and it is at most the sum of the points of all questions.
C7_ScoreIsSumOfMatchedQuestions ==
    \A key \in DOMAIN Main.user_attempts :
       LET attempt == Main.user_attempts[key]
           questions == Main.quiz_sets[key[1]].questions
       IN /\ attempt.score = SumOfMatched(questions, attempt.answers, 1)
          /\ attempt.score <= SumOfPoints(questions, 1)

-----------------------------------------------------------------------------
(* Quiz ids *)

CreatedQuiz ==
    /\ last = Idle
    /\ last'.step = "operation"
    /\ last'.chain = MainChain
    /\ last'.op = "CreateQuiz"
    /\ last'.returned = "Ok"

\* C8: the ids of the main chain are 1, 2, ... in the order of the accepted
\* creations: an accepted creation stores the new quiz under the old
\* next_quiz_id, which held no quiz, raises next_quiz_id by one and leaves
\* every other quiz record as it was; any other step, a rejected creation
\* included, leaves next_quiz_id and the set of ids alone.
C8_QuizIdsAreSequential ==
    [][ /\ DOMAIN Main'.quiz_sets = 1..(Main'.next_quiz_id - 1)
        /\ \A id \in DOMAIN Main'.quiz_sets : Main'.quiz_sets[id].id = id
        /\ IF CreatedQuiz
           THEN /\ Main'.next_quiz_id = Main.next_quiz_id + 1
                /\ Main.next_quiz_id \notin DOMAIN Main.quiz_sets
                /\ DOMAIN Main'.quiz_sets =
                      DOMAIN Main.quiz_sets \cup {Main.next_quiz_id}
                /\ \A id \in DOMAIN Main.quiz_sets :
                      Main'.quiz_sets[id] = Main.quiz_sets[id]
           ELSE /\ Main'.next_quiz_id = Main.next_quiz_id
                /\ DOMAIN Main'.quiz_sets = DOMAIN Main.quiz_sets
      ]_vars

\* C8 witness: the second accepted creation has just been given id 2
C8_Witness ==
    /\ last.step = "operation"
    /\ last.op = "CreateQuiz"
    /\ last.returned = "Ok"
    /\ Main.next_quiz_id = 3
    /\ DOMAIN Main.quiz_sets = {1, 2}
    /\ MapGet(Main.user_created_quizzes, "w1") = <<1, 2>>

-----------------------------------------------------------------------------
(* Leaderboard *)

\* C9: the leaderboard of every quiz has at most one entry for a user and its
\* scores never increase from one entry to the next.
C9_LeaderboardSortedOnePerUser ==
    \A quiz_id \in DOMAIN Main.leaderboard :
       LET entries == Main.leaderboard[quiz_id]
       IN /\ \A i, j \in 1..Len(entries) :
                entries[i].user = entries[j].user => i = j
          /\ \A i \in 1..(Len(entries) - 1) :
                ~lt_u32(entries[i].score, entries[i + 1].score)

\* C9 witness: the second user to submit scored more than the first and
\* stands first on the leaderboard
C9_Witness ==
    /\ MapHas(Main.leaderboard, 1)
    /\ MapHas(Main.quiz_participants, 1)
    /\ LET entries == Main.leaderboard[1]
           participants == Main.quiz_participants[1]
       IN /\ Len(entries) = 2
          /\ Len(participants) = 2
          /\ lt_u32(entries[2].score, entries[1].score)
          /\ entries[1].user = participants[2]


-----------------------------------------------------------------------------
(* Nicknames *)

QuizNicknameCalls == {call \in QuizCalls : call.operation.kind = "SetNickname"}

\* C11 as claimed: SetNickname(n) by w returns NicknameAlreadyTaken exactly
\* when n maps to a wallet other than w; in every other case, w holding n
\* already included, it returns Ok and the user record of w and the index
\* point at n.
C11_TakenOnlyByAnother ==
    [][\A call \in QuizNicknameCalls :
          ( /\ Stepped(MainChain, "SetNickname")
            /\ ExecuteOperation(MainChain, call.signer, call.operation) )
          => LET n == call.operation.params.nickname
                 w == call.signer
                 held_by_another ==
                     /\ MapHas(Main.nickname_to_wallet, n)
                     /\ MapGet(Main.nickname_to_wallet, n) # w
             IN IF held_by_another
                THEN last'.returned = "NicknameAlreadyTaken"
                ELSE /\ last'.returned = "Ok"
                     /\ MapHas(Main'.users, w)
                     /\ MapGet(Main'.users, w).nickname = n
                     /\ MapHas(Main'.nickname_to_wallet, n)
                     /\ MapGet(Main'.nickname_to_wallet, n) = w
      ]_vars


-----------------------------------------------------------------------------
(***************************************************************************)
(* The pixel canvas (src/pixel-chain/src/contract.rs, state.rs, lib.rs).   *)
(*                                                                         *)
(* Every chain has its own PixelChainState; instantiate runs on the chain  *)
(* that creates the application, so the canvas of every other chain keeps  *)
(* the default dimensions 0 x 0.  An operation of a chain works on the     *)
(* state of that chain with that chain as runtime.chain_id().  A panic     *)
(* fails the block: nothing of the call is stored or sent.                 *)
(*                                                                         *)
(* The last_update of the statistics is read from the wall clock and never *)
(* read back by the contract; it is left out.                              *)
(***************************************************************************)

PixelColor(red, green, blue, alpha) ==
    [red |-> red, green |-> green, blue |-> blue, alpha |-> alpha]

is_transparent(color) == color.alpha = 0

\* Option<PixelColor>
NoColor == [some |-> FALSE]
SomeColor(color) == [some |-> TRUE, value |-> color]

\* Option<ChainId>::None
NoChain == "none"

Position(x, y) == <<x, y>>

Pixel(x, y, color, owner, timestamp) ==
    [x |-> x, y |-> y, color |-> color, owner |-> owner, timestamp |-> timestamp]

PixelUpdate(x, y, color) == [x |-> x, y |-> y, color |-> color]

Notification(notification_type, x, y, new_color, modified_by, timestamp) ==
    [ notification_type |-> notification_type,
      x |-> x, y |-> y,
      new_color   |-> new_color,
      modified_by |-> modified_by,
      timestamp   |-> timestamp,
      processed   |-> FALSE ]

\* the state a chain loads before anything was stored
DefaultPixelState ==
    [ canvas_width  |-> 0,
      canvas_height |-> 0,
      pixels        |-> EmptyMap,
      pixel_updates |-> <<>>,
      colored_pixel_count |-> 0,
      canvas_stats  |-> [ total_pixels |-> 0, colored_pixels |-> 0,
                          transparent_pixels |-> 0, unique_colors |-> 0 ],
      default_color |-> PixelColor(0, 0, 0, 0),
      cross_chain_notifications |-> <<>> ]

\* width * height is a u32 product: this is the state a build without
\* overflow checks leaves, where a product that does not fit wraps
initialize(s, width, height) ==
    [s EXCEPT !.canvas_width  = width,
              !.canvas_height = height,
              !.default_color = PixelColor(0, 0, 0, 0),
              !.canvas_stats  = [ total_pixels |-> overflowing_mul(width, height).value,
                                  colored_pixels |-> 0,
                                  transparent_pixels |->
                                      overflowing_mul(width, height).value,
                                  unique_colors |-> 0 ],
              !.colored_pixel_count = 0]

\* The states instantiate can leave for the argument (width, height), which
\* no code checks: the one of initialize, and, where width * height does not
\* fit a u32, the state before the call, which a build with overflow checks
\* keeps because initialize panics and nothing of the block is stored.
instantiate_outcomes(s, width, height) ==
    {initialize(s, width, height)}
    \cup (IF overflowing_mul(width, height).overflow THEN {s} ELSE {})

\* a bounds test that lets the first column and row outside the canvas in
is_valid_position_inclusive(s, x, y) ==
    ~lt_u32(s.canvas_width, x) /\ ~lt_u32(s.canvas_height, y)

is_valid_position(s, x, y) ==
    lt_u32(x, s.canvas_width) /\ lt_u32(y, s.canvas_height)

get_default_color(s) == s.default_color

\* The u32 subtraction of update_stats in a build without overflow checks
sub_u32(a, b) == wrapping_sub(a, b)

\* One of the u32 operations of update_stats does not fit: the decrement of a
\* colored_pixel_count of 0, the increment of one of u32::MAX, or
\* total_pixels - colored_pixels with fewer pixels in total than coloured.  A
\* build with overflow checks panics there; update_stats gives the state a
\* build without them leaves.
update_stats_overflows(s, old_color, new_color) ==
    LET was_colored == old_color.some /\ ~is_transparent(old_color.value)
        is_colored == new_color.some /\ ~is_transparent(new_color.value)
        counted == IF was_colored /\ ~is_colored
                   THEN [ value |-> sub_u32(s.colored_pixel_count, 1),
                          overflow |-> s.colored_pixel_count = 0 ]
                   ELSE IF ~was_colored /\ is_colored
                   THEN overflowing_add(s.colored_pixel_count, 1)
                   ELSE [value |-> s.colored_pixel_count, overflow |-> FALSE]
    IN counted.overflow \/ lt_u32(s.canvas_stats.total_pixels, counted.value)

update_stats(s, old_color, new_color) ==
    LET was_colored == old_color.some /\ ~is_transparent(old_color.value)
        is_colored == new_color.some /\ ~is_transparent(new_color.value)
        count == IF was_colored /\ ~is_colored
                 THEN sub_u32(s.colored_pixel_count, 1)
                 ELSE IF ~was_colored /\ is_colored
                 THEN wrapping_add(s.colored_pixel_count, 1)
                 ELSE s.colored_pixel_count
    IN [s EXCEPT !.colored_pixel_count = count,
                 !.canvas_stats.colored_pixels = count,
                 !.canvas_stats.transparent_pixels =
                     sub_u32(s.canvas_stats.total_pixels, count)]

-----------------------------------------------------------------------------
(* The notification log of PixelChainState *)

(***************************************************************************)
(* Four functions of PixelChainState rewrite cross_chain_notifications.    *)
(* The contract calls none of them, and the mutations of the service that  *)
(* bear their names only return true, so that no block of a chain runs     *)
(* them: they are functions of the state, applied here to a log by the     *)
(* caller of the state.  An index is a usize and counts from 0.            *)
(***************************************************************************)

\* Result<(), ViewError> and the state the function leaves
StateReturn(res, st) == [res |-> res, st |-> st]

\* the log rebuilt with the entries whose index is in marked set to processed
mark_entries(log, marked) ==
    [i \in 1..Len(log) |->
        IF (i - 1) \in marked THEN [log[i] EXCEPT !.processed = TRUE] ELSE log[i]]

mark_notification_processed(s, index) ==
    IF index >= Len(s.cross_chain_notifications)
    THEN StateReturn("NotFound", s)
    ELSE StateReturn("Ok", [s EXCEPT !.cross_chain_notifications =
                                        mark_entries(@, {index})])

\* indices is a slice; the indices beyond the log mark nothing
mark_notifications_processed(s, indices) ==
    StateReturn("Ok", [s EXCEPT !.cross_chain_notifications =
                          mark_entries(@, {indices[k] : k \in 1..Len(indices)})])

mark_all_notifications_processed(s) ==
    StateReturn("Ok", [s EXCEPT !.cross_chain_notifications =
                          mark_entries(@, {i - 1 : i \in 1..Len(@)})])

\* the processed entries cleanup_old_notifications keeps room for
KeptNotifications == 100

\* The loop of cleanup_old_notifications: an entry that is not processed is
\* kept, a processed one is kept while fewer than KeptNotifications entries
\* were kept before it.  Each of the first KeptNotifications entries has
\* fewer than that many before it, so all of them are kept; from then on the
\* kept entries number at least KeptNotifications and only the entries that
\* are not processed are kept.
cleanup_old_notifications(s) ==
    LET log == s.cross_chain_notifications
        is_unprocessed(notification) == ~notification.processed
        notifications ==
            IF Len(log) <= KeptNotifications THEN log
            ELSE SubSeq(log, 1, KeptNotifications)
                 \o SelectSeq(SubSeq(log, KeptNotifications + 1, Len(log)),
                              is_unprocessed)
    IN StateReturn("Ok", [s EXCEPT !.cross_chain_notifications = notifications])


-----------------------------------------------------------------------------
(* Operations, messages and events of the pixel canvas *)

SetPixel(x, y, color) == [kind |-> "SetPixel", x |-> x, y |-> y, color |-> color]

ClearPixel(x, y) == [kind |-> "ClearPixel", x |-> x, y |-> y]

SetPixels(pixels) == [kind |-> "SetPixels", pixels |-> pixels]

PixelModified(x, y, new_color, modified_by, timestamp) ==
    [ kind |-> "PixelModified", x |-> x, y |-> y, new_color |-> new_color,
      modified_by |-> modified_by, timestamp |-> timestamp ]

BatchPixelModified(pixels, modified_by, timestamp) ==
    [ kind |-> "BatchPixelModified", pixels |-> pixels,
      modified_by |-> modified_by, timestamp |-> timestamp ]

PixelModification(x, y, new_color, previous_color) ==
    [ x |-> x, y |-> y, new_color |-> new_color, previous_color |-> previous_color ]

OwnershipClaim(x, y, requested_by, timestamp) ==
    [ kind |-> "OwnershipClaim", x |-> x, y |-> y,
      requested_by |-> requested_by, timestamp |-> timestamp ]

PixelChanged(x, y, color) == [kind |-> "PixelChanged", x |-> x, y |-> y, color |-> color]

PixelCleared(x, y) == [kind |-> "PixelCleared", x |-> x, y |-> y]

BatchUpdate(count) == [kind |-> "BatchUpdate", count |-> count]

CrossChainPixelModified(x, y, color, modified_by) ==
    [ kind |-> "CrossChainPixelModified", x |-> x, y |-> y, color |-> color,
      modified_by |-> modified_by ]

CrossChainPixelCleared(x, y, modified_by) ==
    [kind |-> "CrossChainPixelCleared", x |-> x, y |-> y, modified_by |-> modified_by]

CrossChainBatchModified(count, modified_by) ==
    [kind |-> "CrossChainBatchModified", count |-> count, modified_by |-> modified_by]

OwnershipChanged(x, y, new_owner, old_owner) ==
    [ kind |-> "OwnershipChanged", x |-> x, y |-> y, new_owner |-> new_owner,
      old_owner |-> old_owner ]

\* What a call leaves behind: whether it panicked, the state, the messages
\* sent and the events emitted.  overflow tells that update_stats computed a
\* u32 value that does not fit: st, sent and events are then those of a build
\* without overflow checks, and a build with overflow checks panics instead.
PixelOutcome(panic, st, sent, events) ==
    [ panic |-> panic, st |-> st, sent |-> sent, events |-> events,
      overflow |-> FALSE ]

\* pixels.get(&position): the record of the cell, if any
old_pixel_color(s, position) ==
    IF MapHas(s.pixels, position) THEN MapGet(s.pixels, position).color ELSE NoColor

\* a SetPixel that tells the prior owner nothing
execute_set_pixel_silent(s, chain_id, t, x, y, color) ==
    IF ~is_valid_position(s, x, y) THEN PixelOutcome(TRUE, s, <<>>, <<>>)
    ELSE
      LET position == Position(x, y)
          s1 == [s EXCEPT
                   !.pixels = MapInsert(s.pixels, position,
                                  Pixel(x, y, SomeColor(color), chain_id, t)),
                   !.pixel_updates = Append(s.pixel_updates, PixelUpdate(x, y, color))]
          s2 == update_stats(s1, old_pixel_color(s, position), SomeColor(color))
      IN PixelOutcome(FALSE, s2, <<>>, <<PixelChanged(x, y, color)>>)

execute_set_pixel(s, chain_id, t, x, y, color) ==
    IF ~is_valid_position(s, x, y) THEN PixelOutcome(TRUE, s, <<>>, <<>>)
    ELSE
      LET position == Position(x, y)
          has_old == MapHas(s.pixels, position)
          notification_required ==
              has_old /\ MapGet(s.pixels, position).owner # chain_id
          s1 == [s EXCEPT
                   !.pixels = MapInsert(s.pixels, position,
                                  Pixel(x, y, SomeColor(color), chain_id, t)),
                   !.pixel_updates = Append(s.pixel_updates, PixelUpdate(x, y, color))]
          s2 == update_stats(s1, old_pixel_color(s, position), SomeColor(color))
          sent == IF notification_required
                     /\ MapGet(s.pixels, position).owner # NoChain
                  THEN << SendTo(MapGet(s.pixels, position).owner,
                                 PixelModified(x, y, SomeColor(color), chain_id, t)) >>
                  ELSE <<>>
      IN [PixelOutcome(FALSE, s2, sent, <<PixelChanged(x, y, color)>>)
            EXCEPT !.overflow =
                update_stats_overflows(s1, old_pixel_color(s, position),
                                       SomeColor(color))]

\* a ClearPixel that leaves the cleared cell without owner
execute_clear_pixel_disown(s, chain_id, t, x, y) ==
    IF ~is_valid_position(s, x, y) THEN PixelOutcome(TRUE, s, <<>>, <<>>)
    ELSE
      LET position == Position(x, y)
          s1 == [s EXCEPT
                   !.pixels = MapInsert(s.pixels, position,
                                  Pixel(x, y, NoColor, NoChain, t)),
                   !.pixel_updates =
                       Append(s.pixel_updates, PixelUpdate(x, y, get_default_color(s)))]
          s2 == update_stats(s1, old_pixel_color(s, position), NoColor)
      IN PixelOutcome(FALSE, s2, <<>>, <<PixelCleared(x, y)>>)

\* a ClearPixel that leaves the record of the cell as it was
execute_clear_pixel_keep_record(s, chain_id, t, x, y) ==
    IF ~is_valid_position(s, x, y) THEN PixelOutcome(TRUE, s, <<>>, <<>>)
    ELSE
      LET position == Position(x, y)
          s1 == [s EXCEPT
                   !.pixel_updates =
                       Append(s.pixel_updates, PixelUpdate(x, y, get_default_color(s)))]
          s2 == update_stats(s1, old_pixel_color(s, position), NoColor)
      IN PixelOutcome(FALSE, s2, <<>>, <<PixelCleared(x, y)>>)

execute_clear_pixel(s, chain_id, t, x, y) ==
    IF ~is_valid_position(s, x, y) THEN PixelOutcome(TRUE, s, <<>>, <<>>)
    ELSE
      LET position == Position(x, y)
          cleared_color == get_default_color(s)
          s1 == [s EXCEPT
                   !.pixels = MapInsert(s.pixels, position,
                                  Pixel(x, y, NoColor, chain_id, t)),
                   !.pixel_updates =
                       Append(s.pixel_updates, PixelUpdate(x, y, cleared_color))]
          s2 == update_stats(s1, old_pixel_color(s, position), NoColor)
      IN [PixelOutcome(FALSE, s2, <<>>, <<PixelCleared(x, y)>>)
            EXCEPT !.overflow =
                update_stats_overflows(s1, old_pixel_color(s, position), NoColor)]

\* the loop of execute_set_pixels from entry k on
RECURSIVE set_pixels_from(_, _, _, _, _)
set_pixels_from(s, chain_id, t, pixels, k) ==
    IF k > Len(pixels) THEN s
    ELSE
      LET x == pixels[k].x
          y == pixels[k].y
          color == pixels[k].color
      IN IF ~is_valid_position(s, x, y)
         THEN set_pixels_from(s, chain_id, t, pixels, k + 1)
         ELSE
           LET position == Position(x, y)
               s1 == [s EXCEPT
                        !.pixels = MapInsert(s.pixels, position,
                                       Pixel(x, y, SomeColor(color), chain_id, t)),
                        !.pixel_updates =
                            Append(s.pixel_updates, PixelUpdate(x, y, color))]
               s2 == update_stats(s1, old_pixel_color(s, position), SomeColor(color))
           IN set_pixels_from(s2, chain_id, t, pixels, k + 1)

\* an update_stats of the loop from entry k on does not fit
RECURSIVE set_pixels_overflows(_, _, _, _, _)
set_pixels_overflows(s, chain_id, t, pixels, k) ==
    IF k > Len(pixels) THEN FALSE
    ELSE IF ~is_valid_position(s, pixels[k].x, pixels[k].y)
    THEN set_pixels_overflows(s, chain_id, t, pixels, k + 1)
    ELSE \/ update_stats_overflows(s,
                old_pixel_color(s, Position(pixels[k].x, pixels[k].y)),
                SomeColor(pixels[k].color))
         \/ set_pixels_overflows(set_pixels_from(s, chain_id, t, <<pixels[k]>>, 1),
                                 chain_id, t, pixels, k + 1)

execute_set_pixels(s, chain_id, t, pixels) ==
    [PixelOutcome(FALSE, set_pixels_from(s, chain_id, t, pixels, 1), <<>>,
                  <<BatchUpdate(Len(pixels))>>)
       EXCEPT !.overflow = set_pixels_overflows(s, chain_id, t, pixels, 1)]

pixel_execute_operation(s, chain_id, t, operation) ==
    CASE operation.kind = "SetPixel" ->
           execute_set_pixel(s, chain_id, t, operation.x, operation.y, operation.color)
      [] operation.kind = "ClearPixel" ->
           execute_clear_pixel(s, chain_id, t, operation.x, operation.y)
      [] operation.kind = "SetPixels" ->
           execute_set_pixels(s, chain_id, t, operation.pixels)


-----------------------------------------------------------------------------
(* Messages received by the pixel canvas *)

\* a handler of PixelModified that also stores the colour it is told
handle_pixel_modification_applied(s, x, y, new_color, modified_by, timestamp) ==
    LET s1 == [s EXCEPT
                 !.cross_chain_notifications =
                     Append(@, Notification("pixel_modified", x, y, new_color,
                                            modified_by, timestamp)),
                 !.pixels = MapInsert(@, Position(x, y),
                                Pixel(x, y, new_color, modified_by, timestamp))]
    IN PixelOutcome(FALSE, s1, <<>>,
          IF new_color.some
          THEN <<CrossChainPixelModified(x, y, new_color.value, modified_by)>>
          ELSE <<CrossChainPixelCleared(x, y, modified_by)>>)

handle_pixel_modification_notification(s, x, y, new_color, modified_by, timestamp) ==
    LET s1 == [s EXCEPT !.cross_chain_notifications =
                  Append(@, Notification("pixel_modified", x, y, new_color,
                                         modified_by, timestamp))]
    IN PixelOutcome(FALSE, s1, <<>>,
          IF new_color.some
          THEN <<CrossChainPixelModified(x, y, new_color.value, modified_by)>>
          ELSE <<CrossChainPixelCleared(x, y, modified_by)>>)

RECURSIVE batch_notifications(_, _, _, _)
batch_notifications(pixels, modified_by, timestamp, k) ==
    IF k > Len(pixels) THEN <<>>
    ELSE << Notification("batch_pixel_modified", pixels[k].x, pixels[k].y,
                         pixels[k].new_color, modified_by, timestamp) >>
         \o batch_notifications(pixels, modified_by, timestamp, k + 1)

handle_batch_pixel_modification_notification(s, pixels, modified_by, timestamp) ==
    LET s1 == [s EXCEPT !.cross_chain_notifications =
                  @ \o batch_notifications(pixels, modified_by, timestamp, 1)]
    IN PixelOutcome(FALSE, s1, <<>>,
                    <<CrossChainBatchModified(Len(pixels), modified_by)>>)

\* a note of the claim that is marked processed from the start
log_ownership_claim_processed(s, x, y, requested_by, timestamp) ==
    [s EXCEPT !.cross_chain_notifications =
        Append(@, [Notification("ownership_claim", x, y, NoColor,
                                requested_by, timestamp) EXCEPT !.processed = TRUE])]

\* a note that is left out when the log already holds one of the same claim
log_ownership_claim_once(s, x, y, requested_by, timestamp) ==
    IF \E i \in 1..Len(s.cross_chain_notifications) :
          /\ s.cross_chain_notifications[i].notification_type = "ownership_claim"
          /\ s.cross_chain_notifications[i].x = x
          /\ s.cross_chain_notifications[i].y = y
          /\ s.cross_chain_notifications[i].modified_by = requested_by
    THEN s
    ELSE [s EXCEPT !.cross_chain_notifications =
            Append(@, Notification("ownership_claim", x, y, NoColor,
                                   requested_by, timestamp))]

\* the note of the claim in cross_chain_notifications
log_ownership_claim(s, x, y, requested_by, timestamp) ==
    [s EXCEPT !.cross_chain_notifications =
        Append(@, Notification("ownership_claim", x, y, NoColor,
                               requested_by, timestamp))]

\* a claim handler that notes the claim and does nothing else
handle_ownership_claim_log_only(s, t, x, y, requested_by, timestamp) ==
    PixelOutcome(FALSE, log_ownership_claim(s, x, y, requested_by, timestamp),
                 <<>>, <<>>)

\* a claim handler that hands an owned cell over to the requester
handle_ownership_claim_takeover(s, t, x, y, requested_by, timestamp) ==
    LET s1 == log_ownership_claim(s, x, y, requested_by, timestamp)
        position == Position(x, y)
    IN IF ~is_valid_position(s1, x, y) THEN PixelOutcome(FALSE, s1, <<>>, <<>>)
       ELSE PixelOutcome(FALSE,
               [s1 EXCEPT !.pixels = MapInsert(s1.pixels, position,
                                         Pixel(x, y, NoColor, requested_by, timestamp))],
               <<SendTo(requested_by, OwnershipClaim(x, y, requested_by, t))>>,
               <<OwnershipChanged(x, y, requested_by, NoChain)>>)

\* a claim handler that answers a claim for a cell outside the canvas as well
handle_ownership_claim_unchecked(s, t, x, y, requested_by, timestamp) ==
    LET s1 == log_ownership_claim(s, x, y, requested_by, timestamp)
        position == Position(x, y)
    IN IF MapHas(s1.pixels, position)
       THEN LET pixel == MapGet(s1.pixels, position)
                response ==
                    IF pixel.owner = requested_by
                    THEN OwnershipClaim(x, y, requested_by, t)
                    ELSE PixelModified(x, y, pixel.color,
                                       IF pixel.owner # NoChain THEN pixel.owner
                                       ELSE requested_by,
                                       pixel.timestamp)
            IN PixelOutcome(FALSE, s1, <<SendTo(requested_by, response)>>, <<>>)
       ELSE PixelOutcome(FALSE,
               [s1 EXCEPT !.pixels = MapInsert(s1.pixels, position,
                                         Pixel(x, y, NoColor, requested_by, timestamp))],
               <<SendTo(requested_by, OwnershipClaim(x, y, requested_by, t))>>,
               <<OwnershipChanged(x, y, requested_by, NoChain)>>)

handle_ownership_claim(s, t, x, y, requested_by, timestamp) ==
    LET s1 == log_ownership_claim(s, x, y, requested_by, timestamp)
        position == Position(x, y)
    IN IF ~is_valid_position(s1, x, y) THEN PixelOutcome(FALSE, s1, <<>>, <<>>)
       ELSE IF MapHas(s1.pixels, position)
       THEN LET pixel == MapGet(s1.pixels, position)
                response ==
                    IF pixel.owner = requested_by
                    THEN OwnershipClaim(x, y, requested_by, t)
                    ELSE PixelModified(x, y, pixel.color,
                                       IF pixel.owner # NoChain THEN pixel.owner
                                       ELSE requested_by,
                                       pixel.timestamp)
            IN PixelOutcome(FALSE, s1, <<SendTo(requested_by, response)>>, <<>>)
       ELSE PixelOutcome(FALSE,
               [s1 EXCEPT !.pixels = MapInsert(s1.pixels, position,
                                         Pixel(x, y, NoColor, requested_by, timestamp))],
               <<SendTo(requested_by, OwnershipClaim(x, y, requested_by, t))>>,
               <<OwnershipChanged(x, y, requested_by, NoChain)>>)

pixel_execute_message(s, t, message) ==
    CASE message.kind = "PixelModified" ->
           handle_pixel_modification_notification(s, message.x, message.y,
               message.new_color, message.modified_by, message.timestamp)
      [] message.kind = "BatchPixelModified" ->
           handle_batch_pixel_modification_notification(s, message.pixels,
               message.modified_by, message.timestamp)
      [] message.kind = "OwnershipClaim" ->
           handle_ownership_claim(s, t, message.x, message.y,
               message.requested_by, message.timestamp)


-----------------------------------------------------------------------------
(* The state machine of the pixel canvas *)

MaxPixelTime == 2
MaxLogged == 3

\* CanvasInitialization of the model
CanvasWidth == 2
CanvasHeight == 1

Red == PixelColor(255, 0, 0, 255)
Blue == PixelColor(0, 0, 255, 255)
Transparent == PixelColor(0, 0, 0, 0)

\* the application is created on the main chain
pixel_instantiate(s) == initialize(s, CanvasWidth, CanvasHeight)

PixelLinks == Chains \X Chains

PixelInFlightCount ==
    Cardinality({<<l, i>> \in PixelLinks \X (1..(MaxInFlight + 1)) :
                    i <= Len(inflight[l])})

RECURSIVE PixelEnqueue(_, _, _)
PixelEnqueue(q, src, sent) ==
    IF sent = <<>> THEN q
    ELSE PixelEnqueue([q EXCEPT ![<<src, Head(sent).destination>>] =
                          Append(@, Head(sent).message)],
                      src, Tail(sent))

PixelStep(step, chain, input, returned, sent, events) ==
    [ step |-> step, chain |-> chain, op |-> input.kind, input |-> input,
      returned |-> returned, sent |-> sent, events |-> events ]

\* the entries of the logs of the chains cs
RECURSIVE Logged(_, _)
Logged(st, cs) ==
    IF cs = {} THEN 0
    ELSE LET c == CHOOSE c \in cs : TRUE
         IN Len(st[c].pixel_updates) + Len(st[c].cross_chain_notifications)
            + Logged(st, cs \ {c})

\* the logs of the model stay within its bound
PixelWithinBounds(st) == Logged(st, Chains) <= MaxLogged

InitPixel ==
    /\ state = [c \in Chains |->
                  IF c = MainChain THEN pixel_instantiate(DefaultPixelState)
                  ELSE DefaultPixelState]
    /\ inflight = [l \in PixelLinks |-> <<>>]
    /\ now = 1
    /\ last = Idle

\* A block of chain c with one operation: execute_operation, then store; a
\* panic fails the block and leaves the chain as it was
PixelOperation(c, operation) ==
    /\ last = Idle
    /\ LET r == pixel_execute_operation(state[c], c, now, operation)
       IN \E overflow_checks \in OverflowChecks(r.overflow) :
          IF r.panic \/ overflow_checks
          THEN /\ last' = PixelStep("operation", c, operation, "panic", <<>>, <<>>)
               /\ UNCHANGED <<state, inflight>>
          ELSE /\ PixelWithinBounds([state EXCEPT ![c] = r.st])
               /\ PixelInFlightCount + Len(r.sent) <= MaxInFlight
               /\ state' = [state EXCEPT ![c] = r.st]
               /\ inflight' = PixelEnqueue(inflight, c, r.sent)
               /\ last' = PixelStep("operation", c, operation, "Ok", r.sent, r.events)
    /\ UNCHANGED now

\* A block of chain dst with the oldest message of chain src: execute_message,
\* then store
PixelMessage(src, dst) ==
    /\ last = Idle
    /\ inflight[<<src, dst>>] # <<>>
    /\ LET message == Head(inflight[<<src, dst>>])
           r == pixel_execute_message(state[dst], now, message)
       IN /\ PixelWithinBounds([state EXCEPT ![dst] = r.st])
          /\ state' = [state EXCEPT ![dst] = r.st]
          /\ inflight' = PixelEnqueue([inflight EXCEPT ![<<src, dst>>] = Tail(@)],
                                      dst, r.sent)
          /\ last' = PixelStep("message", dst, message, "Ok", r.sent, r.events)
    /\ UNCHANGED now

\* A block of chain dst with the oldest message of chain src, the logs not
\* held to the bound of the model; the queues of different chains are taken
\* in any order
RaceMessage(src, dst) ==
    /\ last = Idle
    /\ inflight[<<src, dst>>] # <<>>
    /\ LET message == Head(inflight[<<src, dst>>])
           r == pixel_execute_message(state[dst], now, message)
       IN /\ state' = [state EXCEPT ![dst] = r.st]
          /\ inflight' = PixelEnqueue([inflight EXCEPT ![<<src, dst>>] = Tail(@)],
                                      dst, r.sent)
          /\ last' = PixelStep("message", dst, message, "Ok", r.sent, r.events)
    /\ UNCHANGED now

\* A claim of chain src for a cell arrives in the queue of chain dst.  The
\* contract has no operation that sends a first claim: it is an input of
\* execute_message.
ReceiveOwnershipClaim(src, dst, x, y) ==
    /\ last = Idle
    /\ PixelInFlightCount < MaxInFlight
    /\ inflight' = [inflight EXCEPT ![<<src, dst>>] =
                       Append(@, OwnershipClaim(x, y, src, now))]
    /\ UNCHANGED <<state, now, last>>

\* A batch notification of chain src arrives in the queue of chain dst.  The
\* contract never sends one: it is an input of execute_message.
ReceiveBatchPixelModified(src, dst, pixels) ==
    /\ last = Idle
    /\ PixelInFlightCount < MaxInFlight
    /\ inflight' = [inflight EXCEPT ![<<src, dst>>] =
                       Append(@, BatchPixelModified(pixels, src, now))]
    /\ UNCHANGED <<state, now, last>>

PixelTick ==
    /\ last = Idle
    /\ now < MaxPixelTime
    /\ now' = now + 1
    /\ UNCHANGED <<state, inflight, last>>

OutOfBoundsCells == {<<CanvasWidth, 0>>, <<0, CanvasHeight>>}

\* the calls of the main chain and of a peer
MainPixelOperations ==
    { SetPixel(0, 0, Red), SetPixel(0, 0, Transparent) }
    \cup {SetPixel(cell[1], cell[2], Red) : cell \in OutOfBoundsCells}
    \cup { ClearPixel(0, 0), ClearPixel(CanvasWidth, 0) }
    \cup { SetPixels(<<PixelUpdate(0, 0, Blue), PixelUpdate(CanvasWidth, 0, Red),
                       PixelUpdate(1, 0, Red)>>) }

PeerPixelOperations ==
    { SetPixel(0, 0, Blue), ClearPixel(0, 0),
      SetPixels(<<PixelUpdate(0, 0, Blue)>>) }

ClaimedCells == {<<0, 0>>, <<CanvasWidth, 0>>}

\* the batch a chain is told about
ReportedPixels ==
    << PixelModification(0, 0, SomeColor(Red), NoColor),
       PixelModification(1, 0, NoColor, SomeColor(Blue)) >>

NextPixel ==
    \/ \E operation \in MainPixelOperations : PixelOperation(MainChain, operation)
    \/ \E c \in PeerChains, operation \in PeerPixelOperations :
          PixelOperation(c, operation)
    \/ \E l \in PixelLinks : PixelMessage(l[1], l[2])
    \/ \E src \in PeerChains, cell \in ClaimedCells :
          ReceiveOwnershipClaim(src, MainChain, cell[1], cell[2])
    \/ \E dst \in PeerChains :
          ReceiveBatchPixelModified(MainChain, dst, ReportedPixels)
    \/ Respond
    \/ PixelTick

SpecPixel == InitPixel /\ [][NextPixel]_vars

\* The widest canvas: the application is created with a width and a height
\* whose product, 2^32, does not fit a u32
WideCanvasWidth == 65536
WideCanvasHeight == 65536

InitWideCanvas ==
    /\ \E created \in instantiate_outcomes(DefaultPixelState,
                                            WideCanvasWidth, WideCanvasHeight) :
          state = [c \in Chains |->
                     IF c = MainChain THEN created ELSE DefaultPixelState]
    /\ inflight = [l \in PixelLinks |-> <<>>]
    /\ now = 1
    /\ last = Idle

WideCanvasOperations ==
    { SetPixel(0, 0, Red), SetPixel(0, 0, Transparent),
      SetPixel(WideCanvasWidth - 1, WideCanvasHeight - 1, Blue),
      SetPixel(WideCanvasWidth, 0, Red), SetPixel(0, U32Max, Red),
      ClearPixel(0, 0), ClearPixel(U32Max, 0),
      SetPixels(<<PixelUpdate(0, 0, Blue), PixelUpdate(U32Max, U32Max, Red),
                  PixelUpdate(1, 0, Red)>>) }

NextWideCanvas ==
    \/ \E operation \in WideCanvasOperations : PixelOperation(MainChain, operation)
    \/ Respond
    \/ PixelTick

SpecWideCanvas == InitWideCanvas /\ [][NextWideCanvas]_vars

\* The notification log and its caller: a peer is told of a batch, and the
\* functions of PixelChainState that rewrite the log are applied to its state
StateCall(c, call, r) ==
    /\ last = Idle
    /\ state' = [state EXCEPT ![c] = r.st]
    /\ last' = PixelStep("state", c, call, r.res, <<>>, <<>>)
    /\ UNCHANGED <<inflight, now>>

MarkNotificationProcessed(c, index) ==
    StateCall(c, [kind |-> "mark_notification_processed", index |-> index],
              mark_notification_processed(state[c], index))

MarkNotificationsProcessed(c, indices) ==
    StateCall(c, [kind |-> "mark_notifications_processed", indices |-> indices],
              mark_notifications_processed(state[c], indices))

MarkAllNotificationsProcessed(c) ==
    StateCall(c, [kind |-> "mark_all_notifications_processed"],
              mark_all_notifications_processed(state[c]))

CleanupOldNotifications(c) ==
    StateCall(c, [kind |-> "cleanup_old_notifications"],
              cleanup_old_notifications(state[c]))

\* the slices of indices the caller passes: one in range and one beyond the
\* log, and the same index twice
MarkedIndices == { <<0, MaxLogged>>, <<1, 1>> }

NextNotifications ==
    \/ \E dst \in PeerChains :
          ReceiveBatchPixelModified(MainChain, dst, ReportedPixels)
    \/ \E l \in PixelLinks : PixelMessage(l[1], l[2])
    \/ \E c \in PeerChains, index \in 0..MaxLogged :
          MarkNotificationProcessed(c, index)
    \/ \E c \in PeerChains, indices \in MarkedIndices :
          MarkNotificationsProcessed(c, indices)
    \/ \E c \in PeerChains : MarkAllNotificationsProcessed(c)
    \/ \E c \in PeerChains : CleanupOldNotifications(c)
    \/ Respond
    \/ PixelTick

SpecNotifications == InitPixel /\ [][NextNotifications]_vars


-----------------------------------------------------------------------------
(* Setting and clearing pixels *)

\* the cell the operation or message of the step is about
Cell(input) == Position(input.x, input.y)

\* chain a holds a record of the cell that it coloured itself
HasSet(a, position) ==
    /\ MapHas(state[a].pixels, position)
    /\ MapGet(state[a].pixels, position).owner = a
    /\ MapGet(state[a].pixels, position).color.some

\* C12 as claimed: when chain a has set a cell of the canvas and another chain
\* b then sets the same cell, the record of the cell is owned by b with the
\* colour b gave, and a PixelModified message with that colour is on its way
\* to a.
C12_SecondSetterNotifiesFirst ==
    [][\A a, b \in Chains :
          ( /\ a # b
            /\ Stepped(b, "SetPixel")
            /\ is_valid_position(Main, last'.input.x, last'.input.y)
            /\ HasSet(a, Cell(last'.input)) )
          => LET position == Cell(last'.input)
                 color == SomeColor(last'.input.color)
             IN /\ MapHas(state'[b].pixels, position)
                /\ MapGet(state'[b].pixels, position).owner = b
                /\ MapGet(state'[b].pixels, position).color = color
                /\ \E i \in 1..Len(inflight'[<<b, a>>]) :
                      LET message == inflight'[<<b, a>>][i]
                      IN /\ message.kind = "PixelModified"
                         /\ Cell(message) = position
                         /\ message.new_color = color
      ]_vars

\* the cell had a colour that is not transparent
WasColored(s, position) ==
    /\ MapHas(s.pixels, position)
    /\ MapGet(s.pixels, position).color.some
    /\ MapGet(s.pixels, position).color.value.alpha # 0

\* C13: a ClearPixel on a cell of the canvas leaves the record of the cell
\* present, owned by the clearing chain and without colour; the counter of
\* coloured pixels is one lower than before if the cell had a colour that is
\* not transparent and is unchanged otherwise.
C13_ClearLeavesOwnedUncolored ==
    [][\A c \in Chains :
          ( /\ Stepped(c, "ClearPixel")
            /\ is_valid_position(state[c], last'.input.x, last'.input.y) )
          => LET position == Cell(last'.input)
             IN /\ last'.returned = "Ok"
                /\ MapHas(state'[c].pixels, position)
                /\ MapGet(state'[c].pixels, position).owner = c
                /\ MapGet(state'[c].pixels, position).color = NoColor
                /\ state'[c].colored_pixel_count =
                      IF WasColored(state[c], position)
                      THEN state[c].colored_pixel_count - 1
                      ELSE state[c].colored_pixel_count
                /\ state'[c].colored_pixel_count >= 0
      ]_vars

\* C13 witness: the main chain has set the cell red and has just cleared it
C13_Witness ==
    /\ last.step = "operation"
    /\ last.op = "ClearPixel"
    /\ last.returned = "Ok"
    /\ Main.pixel_updates =
          <<PixelUpdate(0, 0, Red), PixelUpdate(0, 0, PixelColor(0, 0, 0, 0))>>
    /\ Main.colored_pixel_count = 0
    /\ MapGet(Main.pixels, Position(0, 0)).color = NoColor

\* C14: a SetPixel or ClearPixel panics exactly when x >= canvas_width or
\* y >= canvas_height on the chain that executes it, and a call that panics
\* changes no state, sends no message and emits no event.
C14_OutOfBoundsPanics ==
    [][\A c \in Chains, kind \in {"SetPixel", "ClearPixel"} :
          Stepped(c, kind)
          => /\ last'.returned = "panic"
                <=> ~( /\ lt_u32(last'.input.x, state[c].canvas_width)
                       /\ lt_u32(last'.input.y, state[c].canvas_height) )
             /\ last'.returned = "panic"
                => /\ state' = state
                   /\ inflight' = inflight
                   /\ last'.sent = <<>>
                   /\ last'.events = <<>>
      ]_vars

\* C14 witness: on a canvas that holds a pixel, a SetPixel in the first row
\* outside the canvas has just panicked
C14_Witness ==
    /\ last.step = "operation"
    /\ last.op = "SetPixel"
    /\ last.chain = MainChain
    /\ last.returned = "panic"
    /\ last.input.x < CanvasWidth
    /\ last.input.y = CanvasHeight
    /\ Main.pixel_updates # <<>>

\* C15 as claimed: a SetPixels with an entry outside the canvas writes, logs
\* and counts none of its entries.
C15_BatchWithOutOfBoundsEntryAborts ==
    [][\A c \in Chains :
          ( /\ Stepped(c, "SetPixels")
            /\ \E k \in 1..Len(last'.input.pixels) :
                  ~is_valid_position(state[c], last'.input.pixels[k].x,
                                     last'.input.pixels[k].y) )
          => /\ state'[c].pixels = state[c].pixels
             /\ state'[c].pixel_updates = state[c].pixel_updates
             /\ state'[c].colored_pixel_count = state[c].colored_pixel_count
      ]_vars


-----------------------------------------------------------------------------
(* Ownership claims *)

\* the step taken is the delivery of an ownership claim to chain c
ClaimDelivered(c) == Delivered(c, "OwnershipClaim")

ClaimInBounds(c) == is_valid_position(state[c], last'.input.x, last'.input.y)

\* the one message the step sent, to the requester of the claim
SentToRequester(c, message) ==
    /\ last'.sent = <<SendTo(last'.input.requested_by, message)>>
    /\ Len(inflight'[<<c, last'.input.requested_by>>]) >= 1
    /\ inflight'[<<c, last'.input.requested_by>>]
          [Len(inflight'[<<c, last'.input.requested_by>>])] = message

\* C16: a claim for a cell of the canvas that has no record stores a record
\* of the cell owned by the requester and without colour, sends the requester
\* exactly one confirmation, an OwnershipClaim stamped with the system time,
\* and emits exactly one OwnershipChanged event.
C16_ClaimOnUnclaimedGrants ==
    [][\A c \in Chains :
          ( /\ ClaimDelivered(c)
            /\ ClaimInBounds(c)
            /\ ~MapHas(state[c].pixels, Cell(last'.input)) )
          => LET claim == last'.input
             IN /\ state'[c].pixels =
                      MapInsert(state[c].pixels, Cell(claim),
                                Pixel(claim.x, claim.y, NoColor, claim.requested_by,
                                      claim.timestamp))
                /\ SentToRequester(c, OwnershipClaim(claim.x, claim.y,
                                                     claim.requested_by, now))
                /\ last'.events =
                      <<OwnershipChanged(claim.x, claim.y, claim.requested_by, NoChain)>>
      ]_vars

\* C16 witness: a claim of the peer, made at an earlier time, has just been
\* granted on the main chain
C16_Witness ==
    /\ last.step = "message"
    /\ last.op = "OwnershipClaim"
    /\ last.chain = MainChain
    /\ Len(last.events) = 1
    /\ last.input.timestamp < now
    /\ MapHas(Main.pixels, Position(0, 0))
    /\ MapGet(Main.pixels, Position(0, 0)).owner = "peer"
    /\ Len(inflight[<<MainChain, "peer">>]) = 1

\* C17: a claim for a cell whose record names an owner other than the
\* requester leaves every pixel record as it was and sends the requester
\* exactly one PixelModified with the colour, the owner and the timestamp of
\* the record.
C17_ClaimOnOwnedByOtherRefused ==
    [][\A c \in Chains :
          ( /\ ClaimDelivered(c)
            /\ ClaimInBounds(c)
            /\ MapHas(state[c].pixels, Cell(last'.input))
            /\ MapGet(state[c].pixels, Cell(last'.input)).owner
                  \notin {last'.input.requested_by, NoChain} )
          => LET claim == last'.input
                 pixel == MapGet(state[c].pixels, Cell(claim))
             IN /\ state'[c].pixels = state[c].pixels
                /\ SentToRequester(c, PixelModified(claim.x, claim.y, pixel.color,
                                                    pixel.owner, pixel.timestamp))
                /\ last'.events = <<>>
      ]_vars

\* C17 witness: the main chain had coloured the cell at an earlier time and
\* has just refused a claim of the peer for it
C17_Witness ==
    /\ last.step = "message"
    /\ last.op = "OwnershipClaim"
    /\ last.chain = MainChain
    /\ Len(last.sent) = 1
    /\ last.sent[1].message.kind = "PixelModified"
    /\ last.sent[1].message.new_color = SomeColor(Red)
    /\ last.sent[1].message.modified_by = MainChain
    /\ last.sent[1].message.timestamp < now


\* the entries of the notification log of s that note a claim of this
\* requester for this cell
ClaimNotes(s, position, requested_by) ==
    { i \in 1..Len(s.cross_chain_notifications) :
        /\ s.cross_chain_notifications[i].notification_type = "ownership_claim"
        /\ Position(s.cross_chain_notifications[i].x,
                    s.cross_chain_notifications[i].y) = position
        /\ s.cross_chain_notifications[i].modified_by = requested_by }

\* C18: a claim for a cell whose record already names the requester as owner
\* leaves every pixel record as it was, with the requester still the owner,
\* emits no event, is answered with one OwnershipClaim echo stamped with the
\* system time, and adds a notification entry of its own next to the entry of
\* the claim that was granted before.
C18_SecondClaimBySameRequesterIdempotent ==
    [][\A c \in Chains :
          ( /\ ClaimDelivered(c)
            /\ ClaimInBounds(c)
            /\ MapHas(state[c].pixels, Cell(last'.input))
            /\ MapGet(state[c].pixels, Cell(last'.input)).owner
                  = last'.input.requested_by )
          => LET claim == last'.input
             IN /\ state'[c].pixels = state[c].pixels
                /\ MapGet(state'[c].pixels, Cell(claim)).owner = claim.requested_by
                /\ SentToRequester(c, OwnershipClaim(claim.x, claim.y,
                                                     claim.requested_by, now))
                /\ last'.events = <<>>
                /\ Cardinality(ClaimNotes(state[c], Cell(claim), claim.requested_by)) >= 1
                /\ Cardinality(ClaimNotes(state'[c], Cell(claim), claim.requested_by))
                      = Cardinality(ClaimNotes(state[c], Cell(claim),
                                               claim.requested_by)) + 1
      ]_vars

\* C18 witness: the main chain has just echoed a second claim of the peer, made
\* later than the one that was granted; the record keeps the time of the first
C18_Witness ==
    /\ last.step = "message"
    /\ last.op = "OwnershipClaim"
    /\ last.chain = MainChain
    /\ last.events = <<>>
    /\ Len(last.sent) = 1
    /\ last.sent[1].message.kind = "OwnershipClaim"
    /\ MapHas(Main.pixels, Cell(last.input))
    /\ MapGet(Main.pixels, Cell(last.input)).owner = last.input.requested_by
    /\ MapGet(Main.pixels, Cell(last.input)).timestamp < last.input.timestamp
    /\ Cardinality(ClaimNotes(Main, Cell(last.input), last.input.requested_by)) = 2

\* C19: every ownership claim that is delivered appends exactly one entry to
\* the notification log of the receiving chain, of type ownership_claim,
\* naming the cell, the requester and the time of the claim, with processed
\* false; a claim for a position outside the canvas changes nothing else in
\* the state, creates no pixel record, sends no message and emits no event.
C19_EveryClaimLoggedUnprocessed ==
    [][\A c \in Chains :
          ClaimDelivered(c)
          => LET claim == last'.input
                 entry == [ notification_type |-> "ownership_claim",
                            x |-> claim.x, y |-> claim.y, new_color |-> NoColor,
                            modified_by |-> claim.requested_by,
                            timestamp |-> claim.timestamp, processed |-> FALSE ]
             IN /\ state'[c].cross_chain_notifications =
                      Append(state[c].cross_chain_notifications, entry)
                /\ ~ClaimInBounds(c)
                      => /\ state'[c] =
                               [state[c] EXCEPT !.cross_chain_notifications =
                                                    Append(@, entry)]
                         /\ ~MapHas(state'[c].pixels, Cell(claim))
                         /\ last'.sent = <<>>
                         /\ last'.events = <<>>
      ]_vars

\* C19 witness: a claim of the peer for a position outside the canvas has just
\* been delivered to the main chain and is the last entry of its log
C19_Witness ==
    /\ last.step = "message"
    /\ last.op = "OwnershipClaim"
    /\ last.chain = MainChain
    /\ ~is_valid_position(Main, last.input.x, last.input.y)
    /\ last.sent = <<>>
    /\ Len(Main.cross_chain_notifications) >= 1
    /\ Main.cross_chain_notifications[Len(Main.cross_chain_notifications)].x
          = last.input.x
    /\ ~Main.cross_chain_notifications[Len(Main.cross_chain_notifications)].processed

\* C20: a SetPixel on a cell of the canvas stores a record of the cell with
\* the colour given, owned by the calling chain, appends one entry to
\* pixel_updates, and sends exactly one PixelModified message, to the prior
\* owner, when the cell had a record owned by another chain, and no message
\* when the cell had no record or was owned by the caller.
C20_SetPixelOwnsLogsAndNotifiesPriorOwner ==
    [][\A c \in Chains :
          ( /\ Stepped(c, "SetPixel")
            /\ is_valid_position(state[c], last'.input.x, last'.input.y) )
          => LET call == last'.input
                 position == Cell(call)
                 owned_by_other ==
                     /\ MapHas(state[c].pixels, position)
                     /\ MapGet(state[c].pixels, position).owner \notin {c, NoChain}
             IN /\ last'.returned = "Ok"
                /\ MapHas(state'[c].pixels, position)
                /\ MapGet(state'[c].pixels, position).color = SomeColor(call.color)
                /\ MapGet(state'[c].pixels, position).owner = c
                /\ state'[c].pixel_updates =
                      Append(state[c].pixel_updates,
                             PixelUpdate(call.x, call.y, call.color))
                /\ IF owned_by_other
                   THEN LET old_owner == MapGet(state[c].pixels, position).owner
                            message == PixelModified(call.x, call.y,
                                                     SomeColor(call.color), c, now)
                        IN /\ last'.sent = <<SendTo(old_owner, message)>>
                           /\ inflight' = [inflight EXCEPT ![<<c, old_owner>>] =
                                                               Append(@, message)]
                   ELSE /\ last'.sent = <<>>
                        /\ inflight' = inflight
      ]_vars

\* C20 witness: the main chain has just coloured a cell that the peer owned,
\* and the message for the peer is in flight
C20_Witness ==
    /\ last.step = "operation"
    /\ last.op = "SetPixel"
    /\ last.chain = MainChain
    /\ last.returned = "Ok"
    /\ Len(last.sent) = 1
    /\ last.sent[1].destination = "peer"
    /\ MapGet(Main.pixels, Cell(last.input)).owner = MainChain
    /\ Len(inflight[<<MainChain, "peer">>]) >= 1


-----------------------------------------------------------------------------
(* Notifications and the life of a pixel record *)

\* the record of the cell on chain c names an owner that is not c
OwnedByOther(c, position) ==
    /\ MapHas(state[c].pixels, position)
    /\ MapGet(state[c].pixels, position).owner \notin {c, NoChain}

\* the step sent a message about a change of pixels to this chain
NotifiedOfChange(owner) ==
    \E i \in 1..Len(last'.sent) :
        /\ last'.sent[i].destination = owner
        /\ last'.sent[i].message.kind \in {"PixelModified", "BatchPixelModified"}

\* C21 as claimed: a ClearPixel on a cell of the canvas whose record names
\* another chain as owner, and a SetPixels with an entry for such a cell, send
\* that owner a message about the change.
C21_ClearAndBatchNotifyPriorOwner ==
    [][\A c \in Chains :
          /\ ( /\ Stepped(c, "ClearPixel")
               /\ is_valid_position(state[c], last'.input.x, last'.input.y)
               /\ OwnedByOther(c, Cell(last'.input)) )
             => NotifiedOfChange(MapGet(state[c].pixels, Cell(last'.input)).owner)
          /\ Stepped(c, "SetPixels")
             => \A k \in 1..Len(last'.input.pixels) :
                   ( /\ is_valid_position(state[c], last'.input.pixels[k].x,
                                          last'.input.pixels[k].y)
                     /\ OwnedByOther(c, Cell(last'.input.pixels[k])) )
                   => NotifiedOfChange(
                         MapGet(state[c].pixels, Cell(last'.input.pixels[k])).owner)
      ]_vars

\* C22: a pixel record that exists on a chain exists on it after every step,
\* and every record, old or new, names an owner.
C22_RecordsStayAndStayOwned ==
    [][\A c \in Chains :
          /\ DOMAIN state[c].pixels \subseteq DOMAIN state'[c].pixels
          /\ \A position \in DOMAIN state'[c].pixels :
                MapGet(state'[c].pixels, position).owner # NoChain
      ]_vars

\* C22 witness: a cell that had a colour has just been cleared; its record is
\* still there, owned and without colour
C22_Witness ==
    /\ last.step = "operation"
    /\ last.op = "ClearPixel"
    /\ last.returned = "Ok"
    /\ Main.colored_pixel_count = 0
    /\ Len(Main.pixel_updates) >= 2
    /\ MapHas(Main.pixels, Cell(last.input))
    /\ MapGet(Main.pixels, Cell(last.input)).owner = MainChain
    /\ ~MapGet(Main.pixels, Cell(last.input)).color.some

\* the entries a PixelModified or BatchPixelModified message is noted with
NotesOf(message) ==
    IF message.kind = "PixelModified"
    THEN << [ notification_type |-> "pixel_modified", x |-> message.x,
              y |-> message.y, new_color |-> message.new_color,
              modified_by |-> message.modified_by,
              timestamp |-> message.timestamp, processed |-> FALSE ] >>
    ELSE [ k \in 1..Len(message.pixels) |->
             [ notification_type |-> "batch_pixel_modified",
               x |-> message.pixels[k].x, y |-> message.pixels[k].y,
               new_color |-> message.pixels[k].new_color,
               modified_by |-> message.modified_by,
               timestamp |-> message.timestamp, processed |-> FALSE ] ]

\* C30: the delivery of a PixelModified or BatchPixelModified message appends
\* one entry per reported cell, with processed false, to the notification log
\* of the receiving chain, changes nothing else in its state and sends no
\* message.
C30_ModificationMessagesOnlyLogged ==
    [][\A c \in Chains :
          ( Delivered(c, "PixelModified") \/ Delivered(c, "BatchPixelModified") )
          => /\ state'[c] =
                   [state[c] EXCEPT !.cross_chain_notifications =
                                        @ \o NotesOf(last'.input)]
             /\ last'.sent = <<>>
             /\ \A l \in PixelLinks : Len(inflight'[l]) <= Len(inflight[l])
      ]_vars

\* C30 witness: a peer has just been told that the main chain coloured the
\* cell the peer owned
C30_Witness ==
    /\ last.step = "message"
    /\ last.op = "PixelModified"
    /\ last.chain \in PeerChains
    /\ last.input.new_color = SomeColor(Red)
    /\ Len(state[last.chain].cross_chain_notifications) >= 1
    /\ state[last.chain].pixels = EmptyMap

\* a peer has just been told of a batch of two cells
C30_BatchWitness ==
    /\ last.step = "message"
    /\ last.op = "BatchPixelModified"
    /\ last.chain \in PeerChains
    /\ Len(state[last.chain].cross_chain_notifications) >= 2


-----------------------------------------------------------------------------
(* Quiz records, their window and their start *)

QuizCreateCalls == {call \in QuizCalls : call.operation.kind = "CreateQuiz"}

\* start < end, end - start <= 100 years (one unit is 10^6 s; both sides of
\* the comparison in seconds are divided by 100), start later than the creation
WindowOk(start_time, end_time, created_at) ==
    /\ start_time < end_time
    /\ (end_time - start_time) * 10000 <= 3600 * 24 * 365
    /\ start_time > created_at

\* C23: every stored quiz has start < end, end - start <= 100 years and a
\* start later than its creation; a CreateQuiz whose start and end are numbers
\* that break one of these stores nothing, and returns InvalidParameters when
\* its caller has a user record; a stored quiz stays stored and its questions
\* never change.
C23_StoredQuizWindowValid ==
    [][ /\ \A id \in DOMAIN Main'.quiz_sets :
              WindowOk(Main'.quiz_sets[id].start_time, Main'.quiz_sets[id].end_time,
                       Main'.quiz_sets[id].created_at)
        /\ \A id \in DOMAIN Main.quiz_sets :
              /\ id \in DOMAIN Main'.quiz_sets
              /\ Main'.quiz_sets[id].questions = Main.quiz_sets[id].questions
              /\ Main'.quiz_sets[id].start_time = Main.quiz_sets[id].start_time
              /\ Main'.quiz_sets[id].end_time = Main.quiz_sets[id].end_time
        /\ \A call \in QuizCreateCalls :
              ( /\ Stepped(MainChain, "CreateQuiz")
                /\ ExecuteOperation(MainChain, call.signer, call.operation)
                /\ ParseOk(call.operation.params.start_time)
                /\ ParseOk(call.operation.params.end_time)
                /\ ~WindowOk(parse_u64(call.operation.params.start_time),
                             parse_u64(call.operation.params.end_time), now) )
              => /\ last'.returned # "Ok"
                 /\ state' = state
                 /\ MapHas(Main.users, call.signer)
                       => last'.returned = "InvalidParameters"
      ]_vars

\* C23 witness: with one quiz stored, a creation by its creator has just been
\* refused as InvalidParameters at a time when the valid windows were still open
C23_Witness ==
    /\ last.step = "operation"
    /\ last.op = "CreateQuiz"
    /\ last.returned = "InvalidParameters"
    /\ now = 1
    /\ MapHas(Main.users, "w1")
    /\ DOMAIN Main.quiz_sets = {1}
    /\ Len(Main.quiz_sets[1].questions) = 2


\* the step taken is this submission, executed on the main chain
Submitted(call) ==
    /\ Stepped(MainChain, "SubmitAnswers")
    /\ ExecuteOperation(MainChain, call.signer, call.operation)

\* C24 as claimed: a submission made at or after the end time of the quiz is
\* rejected and creates no attempt.
C24_NoAttemptAtOrAfterEnd ==
    [][\A call \in QuizSubmitCalls :
          ( /\ Submitted(call)
            /\ MapHas(Main.quiz_sets, call.operation.params.quiz_id)
            /\ now >= MapGet(Main.quiz_sets, call.operation.params.quiz_id).end_time )
          => /\ last'.returned # "Ok"
             /\ Main'.user_attempts = Main.user_attempts
      ]_vars


QuizStartCalls == {call \in QuizCalls : call.operation.kind = "StartQuiz"}

\* the step taken is a StartQuiz of the creator of the quiz that returned Ok
StartedByCreator(id) ==
    \E call \in QuizStartCalls :
        /\ Stepped(MainChain, "StartQuiz")
        /\ ExecuteOperation(MainChain, call.signer, call.operation)
        /\ call.operation.quiz_id = id
        /\ call.signer = MapGet(Main.quiz_sets, id).creator
        /\ last'.returned = "Ok"

\* C25: a submission of a wallet to a stored quiz that is not started sets the
\* started flag when the start mode is Auto and the start time has come, and
\* otherwise returns QuizNotStarted and changes nothing; every attempt is for
\* a quiz whose started flag is true; the started flag of a Manual quiz is set
\* by an accepted StartQuiz of its creator only, and no submission to a Manual
\* quiz is accepted before.
C25_UnstartedQuizRefusesSubmissions ==
    [][ /\ \A call \in QuizSubmitCalls :
              ( /\ Submitted(call)
                /\ MapHas(Main.quiz_sets, call.operation.params.quiz_id)
                /\ ~MapGet(Main.quiz_sets, call.operation.params.quiz_id).is_started )
              => LET id == call.operation.params.quiz_id
                     quiz_set == MapGet(Main.quiz_sets, id)
                 IN IF quiz_set.start_mode = "Auto" /\ now >= quiz_set.start_time
                    THEN /\ MapGet(Main'.quiz_sets, id).is_started
                         /\ last'.returned # "QuizNotStarted"
                    ELSE /\ last'.returned = "QuizNotStarted"
                         /\ state' = state
        /\ \A key \in DOMAIN Main'.user_attempts :
              /\ MapHas(Main'.quiz_sets, key[1])
              /\ MapGet(Main'.quiz_sets, key[1]).is_started
        /\ \A id \in DOMAIN Main.quiz_sets :
              ( /\ MapGet(Main.quiz_sets, id).start_mode = "Manual"
                /\ ~MapGet(Main.quiz_sets, id).is_started )
              => /\ MapGet(Main'.quiz_sets, id).is_started => StartedByCreator(id)
                 /\ \A key \in DOMAIN Main'.user_attempts : key[1] # id
      ]_vars

\* C25 witness: a submission has just been accepted by a quiz that starts by
\* itself, at its start time
C25_Witness ==
    /\ last.step = "operation"
    /\ last.op = "SubmitAnswers"
    /\ last.returned = "Ok"
    /\ MapHas(Main.quiz_sets, 1)
    /\ Main.quiz_sets[1].start_mode = "Auto"
    /\ Main.quiz_sets[1].is_started
    /\ now = Main.quiz_sets[1].start_time
    /\ Len(Main.quiz_events) = 1

\* a submission to a Manual quiz has just been refused as not started although
\* the start time has come
C25_ManualWitness ==
    /\ last.step = "operation"
    /\ last.op = "SubmitAnswers"
    /\ last.returned = "QuizNotStarted"
    /\ MapHas(Main.quiz_sets, 1)
    /\ Main.quiz_sets[1].start_mode = "Manual"
    /\ ~Main.quiz_sets[1].is_started
    /\ now >= Main.quiz_sets[1].start_time


C27_StartQuizByCreatorInWindow ==
    [][ /\ \A call \in QuizStartCalls :
              ( /\ Stepped(MainChain, "StartQuiz")
                /\ ExecuteOperation(MainChain, call.signer, call.operation)
                /\ MapHas(Main.quiz_sets, call.operation.quiz_id) )
              => LET id == call.operation.quiz_id
                     quiz_set == MapGet(Main.quiz_sets, id)
                 IN IF /\ quiz_set.creator = call.signer
                       /\ quiz_set.start_mode = "Manual"
                       /\ ~quiz_set.is_started
                       /\ quiz_set.start_time <= now
                       /\ now <= quiz_set.end_time
                    THEN /\ last'.returned = "Ok"
                         /\ Main' = [Main EXCEPT !.quiz_sets[id].is_started = TRUE]
                    ELSE /\ state' = state
                         /\ last'.returned =
                               IF quiz_set.creator # call.signer
                               THEN "InsufficientPermissions"
                               ELSE "InvalidParameters"
        /\ \A id \in DOMAIN Main.quiz_sets :
              MapGet(Main.quiz_sets, id).is_started
              => /\ MapHas(Main'.quiz_sets, id)
                 /\ MapGet(Main'.quiz_sets, id).is_started
      ]_vars

\* C27 witness: the creator has just started a Manual quiz at its end time
C27_Witness ==
    /\ last.step = "operation"
    /\ last.op = "StartQuiz"
    /\ last.returned = "Ok"
    /\ MapHas(Main.quiz_sets, 1)
    /\ Main.quiz_sets[1].start_mode = "Manual"
    /\ Main.quiz_sets[1].is_started
    /\ now = Main.quiz_sets[1].end_time


QuizRegisterCalls == {call \in QuizCalls : call.operation.kind = "RegisterForQuiz"}

\* the step taken is this registration for a stored quiz, executed on the main
\* chain
Registering(call) ==
    /\ Stepped(MainChain, "RegisterForQuiz")
    /\ ExecuteOperation(MainChain, call.signer, call.operation)
    /\ MapHas(Main.quiz_sets, call.operation.quiz_id)

\* C28 as claimed: a registration by a wallet that is registered for the quiz
\* already returns UserAlreadyRegistered.
C28_SecondRegistrationAlwaysAlreadyRegistered ==
    [][\A call \in QuizRegisterCalls :
          ( /\ Registering(call)
            /\ Contains(MapGet(Main.quiz_sets, call.operation.quiz_id).registered_users,
                        call.signer) )
          => last'.returned = "UserAlreadyRegistered"
      ]_vars

\* C28: a RegisterForQuiz of a wallet for a stored quiz appends the wallet to
\* registered_users, and changes nothing else, when the quiz is in
\* Registration mode, is not started, now < end, the wallet has a user record
\* and is not registered yet; otherwise it changes nothing.  A wallet that is
\* registered already gets UserAlreadyRegistered while the quiz is not
\* started and now < end, and InvalidParameters after that.  No wallet is in
\* registered_users twice.
C28_RegisterOnceBeforeStart ==
    [][ /\ \A call \in QuizRegisterCalls :
              Registering(call)
              => LET id == call.operation.quiz_id
                     quiz_set == MapGet(Main.quiz_sets, id)
                     open == /\ quiz_set.mode = "Registration"
                             /\ ~quiz_set.is_started
                             /\ now < quiz_set.end_time
                     registered == Contains(quiz_set.registered_users, call.signer)
                 IN IF open /\ MapHas(Main.users, call.signer) /\ ~registered
                    THEN /\ last'.returned = "Ok"
                         /\ Main' = [Main EXCEPT !.quiz_sets[id].registered_users =
                                                     Append(@, call.signer)]
                    ELSE /\ state' = state
                         /\ last'.returned # "Ok"
                         /\ registered
                               => last'.returned = IF open THEN "UserAlreadyRegistered"
                                                   ELSE "InvalidParameters"
        /\ \A id \in DOMAIN Main'.quiz_sets :
              LET users == MapGet(Main'.quiz_sets, id).registered_users
              IN \A i, j \in 1..Len(users) : users[i] = users[j] => i = j
      ]_vars

\* C28 witness: both wallets are registered for a quiz that has been started,
\* and a registration for it has just been refused as InvalidParameters
C28_Witness ==
    /\ last.step = "operation"
    /\ last.op = "RegisterForQuiz"
    /\ last.returned = "InvalidParameters"
    /\ MapHas(Main.quiz_sets, 1)
    /\ Main.quiz_sets[1].mode = "Registration"
    /\ Main.quiz_sets[1].is_started
    /\ Len(Main.quiz_sets[1].registered_users) = 2

\* both wallets are registered and a registration has just been refused as
\* UserAlreadyRegistered
C28_DuplicateWitness ==
    /\ last.step = "operation"
    /\ last.op = "RegisterForQuiz"
    /\ last.returned = "UserAlreadyRegistered"
    /\ MapHas(Main.quiz_sets, 1)
    /\ Len(Main.quiz_sets[1].registered_users) = 2


-----------------------------------------------------------------------------
(* The ledger of the quizzes *)

\* C29: the state of every chain other than the main chain is the state it
\* was loaded with, whatever operations were executed on the chains and
\* whatever messages were delivered.
C29_OnlyMainChainLedgerChanges ==
    \A c \in PeerChains : state[c] = EmptyState(0)

\* C29 witness: an operation of the peer has just been applied to the ledger of
\* the main chain by message, and the peer holds nothing
C29_Witness ==
    /\ last.step = "message"
    /\ last.chain = MainChain
    /\ last.engine = "Ok"
    /\ Main # instantiate(EmptyState(0))
    /\ \A c \in PeerChains : state[c] = EmptyState(0)


-----------------------------------------------------------------------------
(* The last quiz id *)

LastIdsCreateCalls == {call \in LastIdsCalls : call.operation.kind = "CreateQuiz"}

\* C31 as claimed: a CreateQuiz executed when next_quiz_id is u64::MAX, so that
\* adding one overflows, stores no quiz under that id and leaves the created
\* quizzes of the caller and next_quiz_id as they were.
C31_OverflowingCreateHasNoEffect ==
    [][\A call \in LastIdsCreateCalls :
          ( /\ Stepped(MainChain, "CreateQuiz")
            /\ ExecuteOperation(MainChain, call.signer, call.operation)
            /\ Main.next_quiz_id = U64Max )
          => /\ last'.returned # "Ok"
             /\ Main'.quiz_sets = Main.quiz_sets
             /\ Main'.user_created_quizzes = Main.user_created_quizzes
             /\ Main'.next_quiz_id = Main.next_quiz_id
      ]_vars


-----------------------------------------------------------------------------
(* Messages delivered more than once, messages that race *)

\* the step taken is the delivery to the main chain of the oldest message of
\* chain src
DeliveredFrom(src, kind) ==
    /\ Delivered(MainChain, kind)
    /\ ExecuteMessage(src, MainChain)

\* the two quizzes were created from the same request
SameRequest(a, b) ==
    /\ a.creator = b.creator
    /\ a.start_time = b.start_time
    /\ a.end_time = b.end_time
    /\ a.mode = b.mode
    /\ a.start_mode = b.start_mode
    /\ Len(a.questions) = Len(b.questions)
    /\ \A i \in 1..Len(a.questions) :
          /\ a.questions[i].correct_options = b.questions[i].correct_options
          /\ a.questions[i].points = b.questions[i].points

\* C32: a CreateQuiz message delivered to the main chain with the signer of a
\* user, before the start time it names, is applied whatever was applied
\* before: it stores a quiz under next_quiz_id, raises next_quiz_id by one and
\* appends the id to the created quizzes of the signer, also when a quiz of
\* the same request is stored already.
C32_CreateQuizMessageAppliedEachTime ==
    [][\A src \in PeerChains :
          ( /\ DeliveredFrom(src, "CreateQuiz")
            /\ MapHas(Main.users, Head(inflight[<<src, MainChain>>]).authenticated_signer)
            /\ parse_mode(Head(inflight[<<src, MainChain>>]).message.params.mode)
                  # "Invalid"
            /\ parse_u64(Head(inflight[<<src, MainChain>>]).message.params.start_time)
                  > now )
          => LET signer == Head(inflight[<<src, MainChain>>]).authenticated_signer
                 id == Main.next_quiz_id
             IN /\ last'.engine = "Ok"
                /\ Main'.next_quiz_id = id + 1
                /\ DOMAIN Main'.quiz_sets = DOMAIN Main.quiz_sets \cup {id}
                /\ id \notin DOMAIN Main.quiz_sets
                /\ \A old \in DOMAIN Main.quiz_sets :
                      Main'.quiz_sets[old] = Main.quiz_sets[old]
                /\ Main'.quiz_sets[id].creator = signer
                /\ Main'.user_created_quizzes[signer] =
                      Append(MapGetOrDefault(Main.user_created_quizzes, signer), id)
      ]_vars

\* C32 witness: the same request has just been applied a second time by
\* message; quizzes 1 and 2 are of the same request and both are listed
C32_Witness ==
    /\ last.step = "message"
    /\ last.op = "CreateQuiz"
    /\ last.engine = "Ok"
    /\ DOMAIN Main.quiz_sets = {1, 2}
    /\ SameRequest(Main.quiz_sets[1], Main.quiz_sets[2])
    /\ Main.quiz_sets[1].created_at = Main.quiz_sets[2].created_at
    /\ Main.user_created_quizzes["w1"] = <<1, 2>>


-----------------------------------------------------------------------------
(* The indexes of the attempts *)

\* the wallets that have an attempt for the quiz
Attempted(s, id) == {key[2] : key \in {k \in DOMAIN s.user_attempts : k[1] = id}}

\* how often x occurs in the sequence
Occurrences(seq, x) == Cardinality({i \in 1..Len(seq) : seq[i] = x})

\* C33: for every quiz, participant_count is the length of the participant
\* list of the quiz and the number of attempts stored for it; the participant
\* list holds exactly the wallets with an attempt, each once; the
\* participations of a wallet hold a quiz id once for each attempt of the
\* wallet and no other id.
C33_ParticipantIndexesMatchAttempts ==
    /\ \A key \in DOMAIN Main.user_attempts : MapHas(Main.quiz_sets, key[1])
    /\ \A id \in DOMAIN Main.quiz_sets :
          LET participants == MapGetOrDefault(Main.quiz_participants, id)
          IN /\ Main.quiz_sets[id].participant_count = Len(participants)
             /\ Len(participants) = Cardinality(Attempted(Main, id))
             /\ {participants[i] : i \in 1..Len(participants)} = Attempted(Main, id)
             /\ \A w \in Wallets :
                   Occurrences(MapGetOrDefault(Main.user_participations, w), id)
                      = IF w \in Attempted(Main, id) THEN 1 ELSE 0
    /\ \A w \in DOMAIN Main.user_participations :
          \A i \in 1..Len(Main.user_participations[w]) :
             MapHas(Main.user_attempts, <<Main.user_participations[w][i], w>>)

\* C33 witness: two wallets have an attempt for quiz 1
C33_Witness ==
    /\ MapHas(Main.quiz_sets, 1)
    /\ Main.quiz_sets[1].participant_count = 2
    /\ Attempted(Main, 1) = Wallets
    /\ last.op = "SubmitAnswers"
    /\ last.returned = "UserAlreadyAttempted"


-----------------------------------------------------------------------------
(* The leaderboard and the attempts *)

\* the wallets that have an entry in the leaderboard of the quiz
Ranked(s, id) ==
    LET entries == MapGetOrDefault(s.leaderboard, id)
    IN {entries[i].user : i \in 1..Len(entries)}

\* C34: for every quiz the wallets of its leaderboard are the wallets that
\* have an attempt for it, and the score of every leaderboard entry is the
\* score of the attempt of that wallet.
C34_LeaderboardMatchesAttempts ==
    \A id \in DOMAIN Main.quiz_sets \cup DOMAIN Main.leaderboard :
       LET entries == MapGetOrDefault(Main.leaderboard, id)
       IN /\ Ranked(Main, id) = Attempted(Main, id)
          /\ \A i \in 1..Len(entries) :
                /\ MapHas(Main.user_attempts, <<id, entries[i].user>>)
                /\ entries[i].score = Main.user_attempts[<<id, entries[i].user>>].score

\* C34 witness: the leaderboard of quiz 1 has two entries with different
\* scores
C34_Witness ==
    /\ MapHas(Main.leaderboard, 1)
    /\ Len(Main.leaderboard[1]) = 2
    /\ Main.leaderboard[1][1].score > Main.leaderboard[1][2].score
    /\ Main.leaderboard[1][2].score > 0
    /\ last.op = "SubmitAnswers"
    /\ last.returned = "Ok"

\* C35: the time taken of every leaderboard entry is the time taken of the
\* attempt of the same wallet for the same quiz.
C35_LeaderboardTimeTakenIsAttemptTimeTaken ==
    \A id \in DOMAIN Main.leaderboard :
       \A i \in 1..Len(Main.leaderboard[id]) :
          LET entry == Main.leaderboard[id][i]
          IN MapHas(Main.user_attempts, <<id, entry.user>>)
                => entry.time_taken = Main.user_attempts[<<id, entry.user>>].time_taken


-----------------------------------------------------------------------------
(* Registration and the automatic start *)

\* C36: for a quiz in Registration mode that starts automatically, no step at
\* a time at or after the start time of the quiz adds a wallet to its
\* registered users, whether is_started is set or not.
C36_NoRegistrationFromStartTimeOn ==
    [][\A id \in DOMAIN Main.quiz_sets :
          ( /\ Main.quiz_sets[id].mode = "Registration"
            /\ Main.quiz_sets[id].start_mode = "Auto"
            /\ now >= Main.quiz_sets[id].start_time
            /\ MapHas(Main'.quiz_sets, id) )
          => Main'.quiz_sets[id].registered_users = Main.quiz_sets[id].registered_users
      ]_vars


-----------------------------------------------------------------------------
(* The counters of the canvas *)

\* the cells of chain c whose record has a colour that is not transparent
ColoredCells(c) ==
    {position \in DOMAIN state[c].pixels :
        /\ state[c].pixels[position].color.some
        /\ ~is_transparent(state[c].pixels[position].color.value)}

\* C37: on every chain colored_pixel_count is the number of cells whose record
\* has a non-transparent colour, colored_pixels is that counter, and
\* colored_pixels + transparent_pixels = total_pixels = width * height, the
\* sum and the product taken without wrapping.
C37_CountersMatchCanvas ==
    \A c \in Chains :
       LET stats == state[c].canvas_stats
           sum == overflowing_add(stats.colored_pixels, stats.transparent_pixels)
           product == overflowing_mul(state[c].canvas_width, state[c].canvas_height)
       IN /\ state[c].colored_pixel_count = Cardinality(ColoredCells(c))
          /\ stats.colored_pixels = state[c].colored_pixel_count
          /\ ~sum.overflow
          /\ sum.value = stats.total_pixels
          /\ ~product.overflow
          /\ product.value = stats.total_pixels


-----------------------------------------------------------------------------
(* Ownership claims made in turn and what follows from each *)

MaxClaims == 2

\* no claim was made so far: nothing is in flight and no chain has noted a
\* message
NoExchangeYet ==
    /\ \A l \in PixelLinks : inflight[l] = <<>>
    /\ \A c \in Chains : state[c].cross_chain_notifications = <<>>

\* the operations of the main chain before the claims
ClaimsPixelOperations ==
    { SetPixel(0, 0, Red), ClearPixel(0, 0), SetPixel(CanvasWidth, 0, Red) }

\* a claim made while no exchange is under way: a chain without the canvas
\* asks the chain that holds it for a cell
ClaimInTurn(src, dst, x, y) ==
    /\ \A l \in PixelLinks : inflight[l] = <<>>
    /\ Len(state[MainChain].cross_chain_notifications) < MaxClaims
    /\ src \in PeerChains
    /\ dst = MainChain
    /\ ReceiveOwnershipClaim(src, dst, x, y)

NextClaims ==
    \/ \E operation \in ClaimsPixelOperations :
          NoExchangeYet /\ PixelOperation(MainChain, operation)
    \/ \E src \in PeerChains, cell \in ClaimedCells :
          ClaimInTurn(src, MainChain, cell[1], cell[2])
    \/ \E l \in PixelLinks : RaceMessage(l[1], l[2])
    \/ Respond
    \/ PixelTick

SpecClaims == InitPixel /\ [][NextClaims]_vars

\* C38: a claim exchange ends with the reply.  The step in which the main
\* chain handles a claim sends at most one message, to the requester, and
\* leaves nothing else in flight; the step in which the requester handles the
\* reply (confirmation, echo or Modified) sends no message and leaves no
\* message in flight.
C38_NothingSentAfterTheReply ==
    [][ /\ Delivered(MainChain, "OwnershipClaim")
           => /\ Len(last'.sent) <= 1
              /\ \A i \in 1..Len(last'.sent) :
                    last'.sent[i].destination = last'.input.requested_by
              /\ \A l \in PixelLinks :
                    inflight'[l] = IF l = <<MainChain, last'.input.requested_by>>
                                   THEN [i \in 1..Len(last'.sent) |->
                                            last'.sent[i].message]
                                   ELSE <<>>
        /\ \A c \in PeerChains :
              (Delivered(c, "OwnershipClaim") \/ Delivered(c, "PixelModified"))
              => /\ last'.sent = <<>>
                 /\ \A l \in PixelLinks : inflight'[l] = <<>>
      ]_vars

\* C38 witness: the main chain has granted the cell to the peer and has
\* answered the second claim of the peer for it with the echo; the peer has
\* just handled the echo after the confirmation, and no message is in flight
C38_Witness ==
    /\ last.step = "message"
    /\ last.chain \in PeerChains
    /\ last.op = "OwnershipClaim"
    /\ last.sent = <<>>
    /\ MapHas(state[MainChain].pixels, Position(0, 0))
    /\ MapGet(state[MainChain].pixels, Position(0, 0)).owner = last.chain
    /\ Len(state[MainChain].cross_chain_notifications) = 2
    /\ Len(state[last.chain].cross_chain_notifications) = 2
    /\ \A i \in 1..2 :
          /\ state[last.chain].cross_chain_notifications[i].notification_type
                = "ownership_claim"
          /\ state[last.chain].cross_chain_notifications[i].x = 0
          /\ state[last.chain].cross_chain_notifications[i].y = 0
    /\ \A l \in PixelLinks : inflight[l] = <<>>


-----------------------------------------------------------------------------
(* Two chains that claim the same cell *)

MaxRaceClaims == 3

RacePeers == {"peer", "peer2"}
RaceChains == {MainChain} \cup RacePeers
RaceLinks == RaceChains \X RaceChains

\* the cell both chains claim
RaceCell == Position(0, 0)

InitRace ==
    /\ state = [c \in RaceChains |->
                  IF c = MainChain THEN pixel_instantiate(DefaultPixelState)
                  ELSE DefaultPixelState]
    /\ inflight = [l \in RaceLinks |-> <<>>]
    /\ now = 1
    /\ last = Idle

\* the claims of the behaviour so far: those the main chain has noted and
\* those on their way to it
RaceClaimsMade ==
    Len(state[MainChain].cross_chain_notifications)
    + Cardinality({<<p, i>> \in RacePeers \X (1..MaxRaceClaims) :
                      i <= Len(inflight[<<p, MainChain>>])})

\* A claim of chain src for the cell arrives in the queue of the main chain
RaceClaim(src) ==
    /\ last = Idle
    /\ RaceClaimsMade < MaxRaceClaims
    /\ inflight' = [inflight EXCEPT ![<<src, MainChain>>] =
                       Append(@, OwnershipClaim(RaceCell[1], RaceCell[2], src, now))]
    /\ UNCHANGED <<state, now, last>>

NextRace ==
    \/ \E src \in RacePeers : RaceClaim(src)
    \/ \E l \in RaceLinks : RaceMessage(l[1], l[2])
    \/ Respond
    \/ PixelTick

SpecRace == InitRace /\ [][NextRace]_vars

\* the requester of the claim the main chain handled first
FirstHandled == state[MainChain].cross_chain_notifications[1].modified_by

\* the replies chain p has got so far: those on their way and those it noted
RepliesTo(p) ==
    {inflight[<<MainChain, p>>][i].kind : i \in 1..Len(inflight[<<MainChain, p>>])}
    \cup {IF state[p].cross_chain_notifications[i].notification_type = "ownership_claim"
          THEN "OwnershipClaim" ELSE "PixelModified" :
             i \in 1..Len(state[p].cross_chain_notifications)}

\* the chains that the Modified replies for chain p name
NamedTo(p) ==
    {inflight[<<MainChain, p>>][i].modified_by :
        i \in {j \in 1..Len(inflight[<<MainChain, p>>]) :
                  inflight[<<MainChain, p>>][j].kind = "PixelModified"}}
    \cup {state[p].cross_chain_notifications[i].modified_by :
             i \in {j \in 1..Len(state[p].cross_chain_notifications) :
                       state[p].cross_chain_notifications[j].notification_type
                          = "pixel_modified"}}

\* the owner of the cell is the first requester handled, whose replies are
\* all confirmations, and the replies of the other chain are all Modified
\* messages that name this owner
RaceSettled ==
    state[MainChain].cross_chain_notifications # <<>>
    => /\ MapHas(state[MainChain].pixels, RaceCell)
       /\ MapGet(state[MainChain].pixels, RaceCell).owner = FirstHandled
       /\ RepliesTo(FirstHandled) \subseteq {"OwnershipClaim"}
       /\ \A p \in RacePeers \ {FirstHandled} :
             /\ RepliesTo(p) \subseteq {"PixelModified"}
             /\ NamedTo(p) \subseteq {FirstHandled}

\* C39: when two chains claim the same cell without record, the chain whose
\* claim the main chain handles first becomes the owner and is answered with
\* a confirmation, the other chain is answered with a PixelModified message
\* that names this owner, whatever the order of delivery; every claim handled
\* is answered with one message to its requester, and no claim handled later
\* changes the owner of the cell.
C39_FirstClaimHandledWins ==
    [][ /\ RaceSettled'
        /\ \A c \in RaceChains :
              ( /\ Delivered(c, "OwnershipClaim")
                /\ c = MainChain )
              => /\ Len(last'.sent) = 1
                 /\ last'.sent[1].destination = last'.input.requested_by
                 /\ last'.sent[1].message.kind =
                       IF state[MainChain].cross_chain_notifications = <<>>
                          \/ FirstHandled = last'.input.requested_by
                       THEN "OwnershipClaim" ELSE "PixelModified"
        /\ MapHas(state[MainChain].pixels, RaceCell)
              => /\ MapHas(state'[MainChain].pixels, RaceCell)
                 /\ MapGet(state'[MainChain].pixels, RaceCell).owner
                       = MapGet(state[MainChain].pixels, RaceCell).owner
      ]_vars

\* C39 witness: peer2 owns the cell, the claim of peer was handled after it and
\* was followed by a third claim, peer has noted the PixelModified that names
\* peer2 and peer2 has noted its confirmation
C39_Witness ==
    /\ Len(state[MainChain].cross_chain_notifications) = 3
    /\ FirstHandled = "peer2"
    /\ state[MainChain].cross_chain_notifications[2].modified_by = "peer"
    /\ MapGet(state[MainChain].pixels, RaceCell).owner = "peer2"
    /\ NamedTo("peer") = {"peer2"}
    /\ state["peer"].cross_chain_notifications # <<>>
    /\ state["peer2"].cross_chain_notifications # <<>>
    /\ \A l \in RaceLinks : inflight[l] = <<>>


-----------------------------------------------------------------------------
(* Two chains that forward the same nickname *)

NamePeers == {"peer", "peer2"}
NameChains == {MainChain} \cup NamePeers
NameLinks == {<<src, dst>> \in NameChains \X NameChains : src # dst}

InitNames ==
    /\ state = [c \in NameChains |->
                  IF c = MainChain THEN instantiate(EmptyState(0)) ELSE EmptyState(0)]
    /\ inflight = [l \in NameLinks |-> <<>>]
    /\ now = 1
    /\ last = Idle

\* the calls made on each peer: w1 is a user of peer, w2 a user of peer2
NameCalls(c) ==
    IF c = "peer"
    THEN { Call("w1", SetNickname("n1")), Call("w1", SetNickname("n2")) }
    ELSE { Call("w2", SetNickname("n1")) }

\* A block of peer c with one operation, while no message of c waits at the
\* main chain
NameOperation(c, signer, operation) ==
    /\ last = Idle
    /\ inflight[<<c, MainChain>>] = <<>>
    /\ LET r == execute_operation(c, state[c], signer, now, operation)
       IN /\ state' = [state EXCEPT ![c] = r.st]
          /\ \E authenticated_signer \in {signer, NoSigner} :
                inflight' = Enqueue(inflight, c, r.sent, authenticated_signer)
          /\ last' = Step("forward", c, operation.kind, r.res, "none")
    /\ UNCHANGED now

NextNames ==
    \/ \E c \in NamePeers : \E call \in NameCalls(c) :
          NameOperation(c, call.signer, call.operation)
    \/ \E l \in NameLinks : ExecuteMessage(l[1], l[2])
    \/ Respond
    \/ Tick

SpecNames == InitNames /\ [][NextNames]_vars

\* the users and the nickname index name each other
NamesIndexed(s) ==
    /\ \A w \in DOMAIN s.users :
          /\ MapHas(s.nickname_to_wallet, s.users[w].nickname)
          /\ s.nickname_to_wallet[s.users[w].nickname] = w
    /\ \A n \in DOMAIN s.nickname_to_wallet :
          /\ MapHas(s.users, s.nickname_to_wallet[n])
          /\ s.users[s.nickname_to_wallet[n]].nickname = n

\* C40: of the SetNickname messages that chains forward with the signers of
\* their users for the same name, the one the main chain handles first gives
\* the name to its signer; a message for a name another wallet holds is
\* refused with NicknameAlreadyTaken and changes nothing, so that the profile
\* of its signer is as before and the index still maps the name to the
\* holder; after every step each name is held by one wallet, the one the
\* index names.
C40_FirstNicknameHandledWins ==
    [][ /\ NamesIndexed(state'[MainChain])
        /\ \A src \in NamePeers :
              ( /\ DeliveredFrom(src, "SetNickname")
                /\ Head(inflight[<<src, MainChain>>]).authenticated_signer # NoSigner )
              => LET w == Head(inflight[<<src, MainChain>>]).authenticated_signer
                     n == Head(inflight[<<src, MainChain>>]).message.params.nickname
                 IN IF ~MapHas(Main.nickname_to_wallet, n)
                    THEN /\ last'.engine = "Ok"
                         /\ MapGet(state'[MainChain].users, w).nickname = n
                         /\ MapGet(state'[MainChain].nickname_to_wallet, n) = w
                         /\ \A v \in DOMAIN Main.users \ {w} :
                               state'[MainChain].users[v] = Main.users[v]
                    ELSE /\ last'.engine = "NicknameAlreadyTaken"
                         /\ state' = state
      ]_vars

\* C40 witness: w2 of peer2 holds n1, and the message of w1 of peer for n1 has
\* just been refused, w1 being left without profile
C40_Witness ==
    /\ last.step = "message"
    /\ last.op = "SetNickname"
    /\ last.engine = "NicknameAlreadyTaken"
    /\ MapHas(Main.nickname_to_wallet, "n1")
    /\ Main.nickname_to_wallet["n1"] = "w2"
    /\ DOMAIN Main.users = {"w2"}
    /\ inflight[<<"peer2", MainChain>>] = <<>>

\* C40 witness of the other order: w1 holds n1 and w2 was refused
C40_WitnessOtherOrder ==
    /\ last.step = "message"
    /\ last.op = "SetNickname"
    /\ last.engine = "NicknameAlreadyTaken"
    /\ MapHas(Main.nickname_to_wallet, "n1")
    /\ Main.nickname_to_wallet["n1"] = "w1"
    /\ DOMAIN Main.users = {"w1"}

====
